---------------------------- MODULE Spec2Model ----------------------------
(***************************************************************************)
(* A model of astrbot_plugin_rconsole: the three link handlers registered  *)
(* in main.py (bilibili, douyin, xiaohongshu) and the helpers of           *)
(* core/bili23.py, core/douyin.py, core/xhs.py and core/common.py.         *)
(*                                                                         *)
(* Text is modelled with TLA+ strings (Len, SubSeq and \o work on them).   *)
(* Strings of the source that are not ASCII are written as ASCII tags: the *)
(* suffix of an abbreviated counter is "wan", a reply text is the tag of   *)
(* the line of code that emits it.                                         *)
(***************************************************************************)
EXTENDS Integers, Sequences, FiniteSets, TLC

(***************************************************************************)
(* Bounds of the model.                                                    *)
(***************************************************************************)
MaxChunks == 1     \* chunks a response body is streamed in, at most
MaxImages == 2     \* images of one post, at most

(***************************************************************************)
(* String helpers: Python's `in`, str.strip, str.index, re character       *)
(* classes and greedy repetition.                                          *)
(***************************************************************************)
Digits19 == {"1", "2", "3", "4", "5", "6", "7", "8", "9"}
Digits == Digits19 \cup {"0"}
Lower == {"a", "b", "c", "d", "e", "f", "g", "h", "i", "j", "k", "l", "m",
          "n", "o", "p", "q", "r", "s", "t", "u", "v", "w", "x", "y", "z"}
Upper == {"A", "B", "C", "D", "E", "F", "G", "H", "I", "J", "K", "L", "M",
          "N", "O", "P", "Q", "R", "S", "T", "U", "V", "W", "X", "Y", "Z"}
WordChars == Lower \cup Upper \cup Digits \cup {"_"}
\* [A-Za-z\d._?%&+\-=\/#] of url_reg and b_short_rex
UrlChars == Lower \cup Upper \cup Digits \cup
            {".", "_", "?", "%", "&", "+", "-", "=", "/", "#"}
\* [A-Za-z\d._?%&+\-=#] of the douyin patterns (no slash)
DouyinChars == UrlChars \ {"/"}
\* [A-Za-z\d._?%&+\-=\/#@] of the xiaohongshu patterns
XhsChars == UrlChars \cup {"@"}

CharAt(s, i) == SubSeq(s, i, i)

StartsAt(s, i, sub) ==
    /\ i >= 1
    /\ i + Len(sub) - 1 <= Len(s)
    /\ SubSeq(s, i, i + Len(sub) - 1) = sub

\* sub in s
Contains(s, sub) == \E i \in 1..(Len(s) + 1) : StartsAt(s, i, sub)

\* s.index(sub), 0 when absent
IndexOf(s, sub) ==
    IF Contains(s, sub)
    THEN CHOOSE i \in 1..(Len(s) + 1) :
            /\ StartsAt(s, i, sub)
            /\ \A j \in 1..(i - 1) : ~StartsAt(s, j, sub)
    ELSE 0

\* the end of the longest run of characters of class that starts at i
\* (i - 1 when the run is empty): a greedy [class]*
SpanEnd(s, i, class) ==
    CHOOSE j \in (i - 1)..Len(s) :
        /\ \A k \in i..j : CharAt(s, k) \in class
        /\ (j = Len(s) \/ CharAt(s, j + 1) \notin class)

\* str.strip() for blanks
RECURSIVE Strip(_)
Strip(s) ==
    IF Len(s) = 0 THEN s
    ELSE IF CharAt(s, 1) = " " THEN Strip(SubSeq(s, 2, Len(s)))
    ELSE IF CharAt(s, Len(s)) = " " THEN Strip(SubSeq(s, 1, Len(s) - 1))
    ELSE s

None == "None"

\* a literal pattern in which "~" stands for the regex wildcard "."
StartsAtWild(s, i, pat) ==
    /\ i >= 1
    /\ i + Len(pat) - 1 <= Len(s)
    /\ \A k \in 1..Len(pat) :
          CharAt(pat, k) = "~" \/ CharAt(s, i + k - 1) = CharAt(pat, k)

\* re.search of (p1|p2|...)[class]{minTail,}: the leftmost match, None
\* when there is none
SearchPrefixRun(s, prefixes, class, minTail) ==
    LET ok(i) == \E p \in prefixes :
                    /\ StartsAtWild(s, i, p)
                    /\ SpanEnd(s, i + Len(p), class) - (i + Len(p)) + 1 >= minTail
        hits == {i \in 1..Len(s) : ok(i)}
    IN  IF hits = {} THEN None
        ELSE LET i == CHOOSE h \in hits : \A g \in hits : h <= g
                 p == CHOOSE q \in prefixes : StartsAtWild(s, i, q)
             IN  SubSeq(s, i, SpanEnd(s, i + Len(p), class))

\* re.search of lit(class+): group 1 of the leftmost match, None when none
SearchGroup(s, lit, class) ==
    LET hits == {i \in 1..Len(s) :
                    /\ StartsAt(s, i, lit)
                    /\ i + Len(lit) <= Len(s)
                    /\ CharAt(s, i + Len(lit)) \in class}
    IN  IF hits = {} THEN None
        ELSE LET i == CHOOSE h \in hits : \A g \in hits : h <= g
             IN  SubSeq(s, i + Len(lit), SpanEnd(s, i + Len(lit), class))

\* s.replace(c, "") for a single character c
RECURSIVE RemoveChar(_, _)
RemoveChar(s, c) ==
    IF Len(s) = 0 THEN s
    ELSE IF CharAt(s, 1) = c THEN RemoveChar(SubSeq(s, 2, Len(s)), c)
    ELSE CharAt(s, 1) \o RemoveChar(SubSeq(s, 2, Len(s)), c)

\* s.split(c)[0]
BeforeChar(s, c) == IF Contains(s, c) THEN SubSeq(s, 1, IndexOf(s, c) - 1) ELSE s

\* urlparse(url).query: what follows the first "?" of the part before "#"
UrlQuery(url) ==
    LET u == BeforeChar(url, "#")
    IN  IF Contains(u, "?") THEN SubSeq(u, IndexOf(u, "?") + 1, Len(u)) ELSE ""

\* parse_qs(query).get(name, [None])[0]: the first non-blank value of
\* the parameter, None when the query has none
QueryParam(query, name) ==
    LET key == name \o "="
        starts == {i \in 1..Len(query) :
                     /\ (i = 1 \/ CharAt(query, i - 1) = "&")
                     /\ StartsAt(query, i, key)
                     /\ i + Len(key) <= Len(query)
                     /\ CharAt(query, i + Len(key)) # "&"}
    IN  IF starts = {} THEN None
        ELSE LET i == CHOOSE h \in starts : \A g \in starts : h <= g
             IN  BeforeChar(SubSeq(query, i + Len(key), Len(query)), "&")

UpperSeq == "ABCDEFGHIJKLMNOPQRSTUVWXYZ"
LowerSeq == "abcdefghijklmnopqrstuvwxyz"

\* str.lower(), for re.IGNORECASE
RECURSIVE ToLower(_)
ToLower(s) ==
    IF Len(s) = 0 THEN s
    ELSE (IF CharAt(s, 1) \in Upper
          THEN CharAt(LowerSeq, IndexOf(UpperSeq, CharAt(s, 1)))
          ELSE CharAt(s, 1)) \o ToLower(SubSeq(s, 2, Len(s)))

\* SearchPrefixRun under re.I, for lower-case prefixes and a class closed
\* under case: the match is cut from s itself
SearchPrefixRunI(s, prefixes, class, minTail) ==
    LET m == SearchPrefixRun(ToLower(s), prefixes, class, minTail)
    IN  IF m = None THEN None
        ELSE LET i == IndexOf(ToLower(s), m)
             IN  SubSeq(s, i, i + Len(m) - 1)

\* re.search of .*(l1|l2|...)(class+): the group after the last literal
\* that a character of class follows (the leading .* is greedy)
SearchLastGroupI(s, lits, class) ==
    LET low == ToLower(s)
        hits == {i \in 1..Len(low) :
                    \E l \in lits : /\ StartsAt(low, i, l)
                                    /\ i + Len(l) <= Len(low)
                                    /\ CharAt(low, i + Len(l)) \in class}
    IN  IF hits = {} THEN None
        ELSE LET i == CHOOSE h \in hits : \A g \in hits : g <= h
                 l == CHOOSE k \in lits : StartsAt(low, i, k)
             IN  SubSeq(s, i + Len(l), SpanEnd(s, i + Len(l), class))

DigitVal(c) ==
    CASE c = "0" -> 0 [] c = "1" -> 1 [] c = "2" -> 2 [] c = "3" -> 3
      [] c = "4" -> 4 [] c = "5" -> 5 [] c = "6" -> 6 [] c = "7" -> 7
      [] c = "8" -> 8 [] c = "9" -> 9

IsDigits(s) == Len(s) > 0 /\ \A i \in 1..Len(s) : CharAt(s, i) \in Digits

\* int(s) of a string of digits
RECURSIVE ParseNat(_)
ParseNat(s) ==
    IF Len(s) = 0 THEN 0
    ELSE 10 * ParseNat(SubSeq(s, 1, Len(s) - 1)) + DigitVal(CharAt(s, Len(s)))

(***************************************************************************)
(* main.py: the patterns the host dispatches on.  The host applies each    *)
(* @filter.regex pattern to the message text; a pattern that begins and    *)
(* ends with ".*" matches when its middle occurs anywhere in a one-line    *)
(* message.                                                                *)
(***************************************************************************)
BvChars == Digits19 \cup Lower \cup Upper       \* [1-9a-zA-Z]

HasBvId(s) ==
    \E i \in 1..Len(s) :
        /\ StartsAt(s, i, "BV")
        /\ i + 11 <= Len(s)
        /\ \A k \in (i + 2)..(i + 11) : CharAt(s, k) \in BvChars

bilibili_filter(msg) ==
    \/ Contains(msg, "bilibili.com")
    \/ Contains(msg, "b23.tv")
    \/ Contains(msg, "bili2233.cn")
    \/ HasBvId(msg)

douyin_filter(msg) == Contains(msg, "v.douyin.com/")

xiaohongshu_filter(msg) ==
    Contains(msg, "xhslink.com/") \/ Contains(msg, "xiaohongshu.com/")

\* a variant that hands every other message to the douyin handler
Handler_douyin(msg) ==
    IF bilibili_filter(msg) THEN "bilibili"
    ELSE IF xiaohongshu_filter(msg) THEN "xiaohongshu"
    ELSE "douyin"

\* the handler the host runs for a message, "none" when no pattern matches
Handler(msg) ==
    IF bilibili_filter(msg) THEN "bilibili"
    ELSE IF douyin_filter(msg) THEN "douyin"
    ELSE IF xiaohongshu_filter(msg) THEN "xiaohongshu"
    ELSE "none"

(***************************************************************************)
(* core/bili23.py: the URL handling of process_bilibili_url.               *)
(***************************************************************************)
BiliVideoPrefix == "https://www.bilibili.com/video/"

\* re.match(r'^BV[1-9a-zA-Z]{10}$', url, re.IGNORECASE)
IsBareBv(url) ==
    /\ Len(url) = 12
    /\ CharAt(url, 1) \in {"B", "b"}
    /\ CharAt(url, 2) \in {"V", "v"}
    /\ \A k \in 3..12 : CharAt(url, k) \in BvChars

\* a variant that leaves a bare BV identifier as it is
BvPreprocess_asis(message_str) == Strip(message_str)

\* lines 111-116: strip, then the prefix for a bare BV identifier
BvPreprocess(message_str) ==
    LET url == Strip(message_str)
    IN  IF IsBareBv(url) THEN BiliVideoPrefix \o url ELSE url

IsShortLink(url) == Contains(url, "b23.tv") \/ Contains(url, "bili2233.cn")

\* re.search(b_short_rex, url.replace("\\", ""))
b_short_match(url) ==
    SearchPrefixRun(RemoveChar(url, "\\"),
                    {"http://b23.tv/", "https://b23.tv/",
                     "http://bili2233.cn/", "https://bili2233.cn/"},
                    UrlChars, 1)

\* re.search(url_reg, url): the dot before bilibili is a wildcard
url_reg_search(url) ==
    SearchPrefixRun(url,
                    {sch \o "//" \o sub \o "~bilibili~com/" :
                        sch \in {"http:", "https:"},
                        sub \in {"space", "www", "live", "t"}},
                    UrlChars, 0)

\* url[:url.index('?')] when the url has a query
DropQuery(url) == BeforeChar(url, "?")

\* re.search(r'[^/]+(?!.*/)', url): the segment after the last slash
dynamic_match(url) ==
    LET slashes == {i \in 1..Len(url) : CharAt(url, i) = "/"}
        last == IF slashes = {} THEN 0
                ELSE CHOOSE i \in slashes : \A j \in slashes : j <= i
    IN  IF last = Len(url) THEN None ELSE SubSeq(url, last + 1, Len(url))

\* re.search(r'\/(\d+)', url.split('?')[0])
room_id_match(url) == SearchGroup(BeforeChar(url, "?"), "/", Digits)

\* re.search(r'cv(\d+)', url)
cv_match(url) == SearchGroup(url, "cv", Digits)

\* re.search(r'fid=(\d+)', url)
fid_match(url) == SearchGroup(url, "fid=", Digits)

IsVideoLink(url) == Contains(url, "video/av") \/ Contains(url, "video/BV")

\* re.search(r"video\/([^\?\/ ]+)", url)
video_id_match(url) ==
    LET hits == {i \in 1..Len(url) :
                    /\ StartsAt(url, i, "video/")
                    /\ i + 6 <= Len(url)
                    /\ CharAt(url, i + 6) \notin {"?", "/", " "}}
    IN  IF hits = {} THEN None
        ELSE LET i == CHOOSE h \in hits : \A g \in hits : h <= g
                 rest == SubSeq(url, i + 6, Len(url))
             IN  BeforeChar(BeforeChar(BeforeChar(rest, "?"), "/"), " ")

(***************************************************************************)
(* core/bili23.py: extra_bili_info.  The labels of video_data_map are      *)
(* written with the keys of video_info['stat'].                            *)
(***************************************************************************)
StatKeys == <<"like", "coin", "favorite", "share", "view", "danmaku", "reply">>

\* The ties of f"{value / 10000:.1f}" (value = ...500) round by the binary
\* value of the quotient; these are the ties between 10,000 and 30,000 that
\* round up.
TiesUp == {10500, 13500, 15500, 17500, 18500, 23500, 24500, 27500, 28500, 29500}

\* f"{value / 10000:.1f}": the quotient to one decimal
FormatTenThousands(value) ==
    LET q == value \div 1000
        r == value % 1000
        tenths == IF r < 500 THEN q
                  ELSE IF r > 500 THEN q + 1
                  ELSE IF value \in TiesUp THEN q + 1 ELSE q
    IN  ToString(tenths \div 10) \o "." \o ToString(tenths % 10)

\* a variant that abbreviates from 10,000 on
FormattedValue_ge(value) ==
    IF value >= 10000 THEN FormatTenThousands(value) \o "wan" ELSE ToString(value)

\* lines 96-99: formatted_value
FormattedValue(value) ==
    IF value > 10000 THEN FormatTenThousands(value) \o "wan" ELSE ToString(value)

\* line 100: one piece of video_info_result
StatPiece(key, value) == key \o ": " \o FormattedValue(value) \o " | "

\* lines 94-102, for the first n keys
RECURSIVE StatPieces(_, _)
StatPieces(video_state, n) ==
    IF n = 0 THEN ""
    ELSE StatPieces(video_state, n - 1) \o StatPiece(StatKeys[n], video_state[StatKeys[n]])

extra_bili_info(video_state) == StatPieces(video_state, Len(StatKeys))

(***************************************************************************)
(* core/douyin.py: get_redirect_url.  A response is what httpx.get gives:  *)
(* raised (the request failed), its status, its Location header (None when *)
(* absent), response.url and its body; followed says whether the client    *)
(* followed redirects to get it.                                           *)
(***************************************************************************)
Response(status, location, url, body, followed) ==
    [raised |-> FALSE, status |-> status, location |-> location, url |-> url,
     body |-> body, followed |-> followed]

RequestFailed(url, followed) ==
    [raised |-> TRUE, status |-> 0, location |-> None, url |-> url, body |-> "",
     followed |-> followed]

\* where a v.douyin.com short link leads
DouyinTargets ==
    {"https://www.iesdouyin.com/share/slides/111/",
     "https://www.iesdouyin.com/share/video/222/",
     "https://www.douyin.com/user/x"}

PageBody == "<a href=\"https://www.iesdouyin.com/share/video/999/\">"

\* What httpx.get(url, follow_redirects=follow) may give for a short link:
\* the redirect itself when redirects are not followed, the page it leads
\* to when they are.
HttpGet(url, follow) ==
    {RequestFailed(url, follow)}
    \cup {Response(404, None, url, "", follow), Response(200, None, url, PageBody, follow)}
    \cup (IF follow
          THEN {Response(200, None, target, PageBody, follow) : target \in DouyinTargets}
          ELSE {Response(302, target, url, "", follow) : target \in DouyinTargets}
               \cup {Response(200, "https://www.iesdouyin.com/share/video/222/",
                              url, PageBody, follow)})

\* line 177: httpx.get(url, headers=DOUYIN_HEADER, follow_redirects=False)
get_redirect_request(url) == HttpGet(url, FALSE)

\* a variant that checks the status first and reads a 200 response's body
get_redirect_url_body(response) ==
    IF response.raised THEN None
    ELSE IF response.status = 200 THEN response.body
    ELSE IF response.location # None THEN response.location
    ELSE None

get_redirect_url(response) ==
    IF response.raised THEN None
    ELSE IF response.location # None THEN response.location
    ELSE IF response.status = 200 THEN response.url
    ELSE None

(***************************************************************************)
(* Python values, as json.dump and json.load see them, and the JSON text   *)
(* of a cache file, as its sequence of tokens.                             *)
(***************************************************************************)
PyStr(s) == [t |-> "str", v |-> s]
PyInt(n) == [t |-> "int", v |-> n]
PyBool(b) == [t |-> "bool", v |-> b]
PyNone == [t |-> "none", v |-> 0]
PyList(items) == [t |-> "list", v |-> items]
\* a dict is the sequence of its <<key, value>> items, in insertion order
PyDict(items) == [t |-> "dict", v |-> items]

\* d.get(key, default)
Get(d, key, default) ==
    IF \E i \in 1..Len(d.v) : d.v[i][1] = key
    THEN d.v[CHOOSE i \in 1..Len(d.v) : d.v[i][1] = key][2]
    ELSE default

HasKey(d, key) == \E i \in 1..Len(d.v) : d.v[i][1] = key

\* bool(value)
Truthy(value) ==
    CASE value.t = "none" -> FALSE
      [] value.t = "bool" -> value.v
      [] value.t = "int" -> value.v # 0
      [] value.t = "str" -> value.v # ""
      [] OTHER -> Len(value.v) > 0

\* json.dump of a string: the quote and the backslash are escaped
RECURSIVE Escape(_)
Escape(s) ==
    IF Len(s) = 0 THEN s
    ELSE (IF CharAt(s, 1) \in {"\"", "\\"} THEN "\\" \o CharAt(s, 1) ELSE CharAt(s, 1))
         \o Escape(SubSeq(s, 2, Len(s)))

RECURSIVE Unescape(_)
Unescape(s) ==
    IF Len(s) = 0 THEN s
    ELSE IF CharAt(s, 1) = "\\" /\ Len(s) >= 2
    THEN CharAt(s, 2) \o Unescape(SubSeq(s, 3, Len(s)))
    ELSE CharAt(s, 1) \o Unescape(SubSeq(s, 2, Len(s)))

Quote(s) == "\"" \o Escape(s) \o "\""

\* json.dump: the tokens of the text
RECURSIVE Dump(_)
RECURSIVE DumpItems(_, _)
RECURSIVE DumpMembers(_, _)
Dump(value) ==
    CASE value.t = "none" -> <<"null">>
      [] value.t = "bool" -> IF value.v THEN <<"true">> ELSE <<"false">>
      [] value.t = "int" -> <<ToString(value.v)>>
      [] value.t = "str" -> <<Quote(value.v)>>
      [] value.t = "list" -> <<"[">> \o DumpItems(value.v, 1) \o <<"]">>
      [] value.t = "dict" -> <<"{">> \o DumpMembers(value.v, 1) \o <<"}">>
DumpItems(items, i) ==
    IF i > Len(items) THEN <<>>
    ELSE Dump(items[i]) \o (IF i < Len(items) THEN <<",">> ELSE <<>>)
         \o DumpItems(items, i + 1)
DumpMembers(items, i) ==
    IF i > Len(items) THEN <<>>
    ELSE <<Quote(items[i][1]), ":">> \o Dump(items[i][2])
         \o (IF i < Len(items) THEN <<",">> ELSE <<>>)
         \o DumpMembers(items, i + 1)

Unquote(tok) == Unescape(SubSeq(tok, 2, Len(tok) - 1))

\* json.load: the value at token i and the index after it
RECURSIVE LoadAt(_, _)
RECURSIVE LoadItems(_, _, _)
RECURSIVE LoadMembers(_, _, _)
LoadAt(toks, i) ==
    LET tok == toks[i]
    IN  CASE tok = "null" -> [val |-> PyNone, next |-> i + 1]
          [] tok = "true" -> [val |-> PyBool(TRUE), next |-> i + 1]
          [] tok = "false" -> [val |-> PyBool(FALSE), next |-> i + 1]
          [] tok = "[" -> LoadItems(toks, i + 1, <<>>)
          [] tok = "{" -> LoadMembers(toks, i + 1, <<>>)
          [] CharAt(tok, 1) = "\"" -> [val |-> PyStr(Unquote(tok)), next |-> i + 1]
          [] OTHER -> [val |-> PyInt(ParseNat(tok)), next |-> i + 1]
LoadItems(toks, i, acc) ==
    IF toks[i] = "]" THEN [val |-> PyList(acc), next |-> i + 1]
    ELSE IF toks[i] = "," THEN LoadItems(toks, i + 1, acc)
    ELSE LET item == LoadAt(toks, i)
         IN  LoadItems(toks, item.next, Append(acc, item.val))
LoadMembers(toks, i, acc) ==
    IF toks[i] = "}" THEN [val |-> PyDict(acc), next |-> i + 1]
    ELSE IF toks[i] = "," THEN LoadMembers(toks, i + 1, acc)
    ELSE LET item == LoadAt(toks, i + 2)
         IN  LoadMembers(toks, item.next, Append(acc, <<Unquote(toks[i]), item.val>>))

Load(toks) == LoadAt(toks, 1).val

(***************************************************************************)
(* core/bili23.py, lines 274-294: the part index and the duration that     *)
(* the length check uses.  [ok |-> FALSE] stands for the exception the     *)
(* lines raise (int() of a non-number, an index out of range).             *)
(***************************************************************************)
\* Python's list[i], for a negative i too
InRange(list, i) == -Len(list.v) <= i /\ i < Len(list.v)
Index(list, i) == IF i >= 0 THEN list.v[i + 1] ELSE list.v[Len(list.v) + i + 1]

PageOf(video_info, url) ==
    IF ~HasKey(video_info, "pages") THEN [ok |-> TRUE, page_num |-> 0]
    ELSE IF UrlQuery(url) = "" THEN [ok |-> TRUE, page_num |-> 0]
    ELSE LET p == QueryParam(UrlQuery(url), "p")
         IN  IF p = None THEN [ok |-> TRUE, page_num |-> 0]
             ELSE IF ~IsDigits(p) THEN [ok |-> FALSE, page_num |-> 0]
             ELSE [ok |-> TRUE, page_num |-> ParseNat(p) - 1]

EffectiveDuration(video_info, url) ==
    LET pg == PageOf(video_info, url)
        top == Get(video_info, "duration", PyInt(0)).v
    IN  IF ~pg.ok THEN [ok |-> FALSE, page_num |-> 0, duration |-> 0]
        ELSE IF ~HasKey(video_info, "pages")
        THEN [ok |-> TRUE, page_num |-> 0, duration |-> top]
        ELSE LET pages == Get(video_info, "pages", PyList(<<>>))
             IN  IF ~InRange(pages, pg.page_num)
                 THEN [ok |-> FALSE, page_num |-> pg.page_num, duration |-> 0]
                 ELSE LET page == Index(pages, pg.page_num)
                      IN  [ok |-> TRUE, page_num |-> pg.page_num,
                           duration |-> IF HasKey(page, "duration")
                                        THEN Get(page, "duration", PyInt(top)).v
                                        ELSE top]

\* a variant of the length check that warns from the maximum on
OverLength_ge(video_duration, video_duration_maximum) ==
    video_duration >= video_duration_maximum

\* line 301: the else branch, which adds the warning line
OverLength(video_duration, video_duration_maximum) ==
    ~(video_duration <= video_duration_maximum)

(***************************************************************************)
(* The state.                                                              *)
(*   req    each request: where its handler stands (pc), the message, the  *)
(*          locals of the handler and the replies it has yielded           *)
(*   tasks  the download coroutines a request has scheduled                *)
(*   disk   the paths of the temporary files that exist                    *)
(*   cache  xhs_cache/<note_id>.json: the tokens of the file, <<>> when    *)
(*          the file does not exist                                        *)
(*   now    int(time.time()), counted from the start of the behaviour      *)
(*          (calls, looked_after, failed and summary record what the       *)
(*          handler did: the network calls it issued, the number of calls  *)
(*          before its cache lookup, its last failed step, the outcome of  *)
(*          the AI summary; no handler branches on them)                   *)
(*   saved  for each note, the last data save_to_cache was called with and *)
(*          the time of the call (history: no handler branches on it)      *)
(*   video_state, stat_i, video_info_result   extra_bili_info's input, its *)
(*          loop index and its result so far                               *)
(***************************************************************************)
VARIABLES req, tasks, disk, cache, now, saved,
          video_state, stat_i, video_info_result

flowVars == <<req, tasks, disk, cache, now, saved>>
statVars == <<video_state, stat_i, video_info_result>>
vars == <<req, tasks, disk, cache, now, saved,
          video_state, stat_i, video_info_result>>

Reqs == {"r1", "r2"}
TaskSlots == 1..(IF MaxImages > 2 THEN MaxImages ELSE 2)
NoteIds == {"n1", "n2"}
max_age == 86400            \* get_from_cache's default
\* the values int(time.time()) takes, from the first message on
Clock == {0, max_age, max_age + 1}

(***************************************************************************)
(* The inputs: messages, the URLs a short link resolves to, upstream data. *)
(***************************************************************************)
Messages ==
    {"hello",
     "BV1ab2cd3ef4 ",
     "BV10b2cd3ef4",
     "BVfavlist123",
     "https://www.bilibili.com/video/BV1ab2cd3ef4?p=2",
     "https://b23.tv/abc",
     "b23.tv",
     "https://t.bilibili.com/123",
     "https://live.bilibili.com/456",
     "https://www.bilibili.com/read/cv789",
     "https://space.bilibili.com/1/favlist?fid=5",
     "https://www.bilibili.com/anime",
     "https://www.bilibili.com/opus/321",
     "https://t.bilibili.com/1?a=live.bilibili.com",
     "https://live.bilibili.com/45/read/cv789",
     "https://www.bilibili.com/read/cv789?favlist",
     "m.bilibili.com/x",
     "https://v.douyin.com/abc/",
     "v.douyin.com/abc",
     "https://www.xiaohongshu.com/explore/n1?xsec_token=tk",
     "http://xhslink.com/a/xyz",
     "xiaohongshu.com/user/u1"}

ShortTargets ==
    {"https://www.bilibili.com/video/BV1ab2cd3ef4?p=3",
     "https://live.bilibili.com/456"}

DurationMaxima == {600}

Page(cid, duration) == PyDict(<< <<"cid", PyInt(cid)>>, <<"duration", PyInt(duration)>> >>)

VideoInfo(duration, pages) ==
    PyDict(<< <<"title", PyStr("t")>>, <<"duration", PyInt(duration)>>,
              <<"pages", PyList(pages)>>, <<"stat", PyDict([i \in 1..Len(StatKeys) |-> <<StatKeys[i], PyInt(10001)>>])>> >>)

\* video_info['stat'], as extra_bili_info reads it
StatFn(video_info) ==
    [k \in {StatKeys[i] : i \in 1..Len(StatKeys)} |->
        Get(Get(video_info, "stat", PyDict(<<>>)), k, PyInt(0)).v]

VideoInfos ==
    {VideoInfo(600, <<Page(1, 600)>>),
     VideoInfo(601, <<Page(1, 601)>>),
     VideoInfo(1200, <<Page(1, 599), Page(2, 601)>>),
     VideoInfo(601, <<PyDict(<< <<"cid", PyInt(1)>> >>)>>)}

(***************************************************************************)
(* Requests and replies.                                                   *)
(***************************************************************************)
\* no step of the request has failed
NoFailure == [what |-> "none", calls |-> 0, replies |-> 0]

IdleReq ==
    [pc |-> "idle", handler |-> "none", msg |-> "", cred |-> FALSE,
     maxdur |-> 0, url |-> "", branch |-> "none", id |-> "",
     info |-> PyNone, page_num |-> 0, duration |-> 0,
     replies |-> <<>>, raised |-> FALSE, written |-> {}, muxed |-> FALSE,
     resp |-> RequestFailed("", FALSE), resolved |-> "", images |-> <<>>,
     lookup |-> "none", cached |-> PyNone, fetch |-> "none", note |-> PyNone,
     calls |-> <<>>, looked_after |-> -1, failed |-> NoFailure, summary |-> "none"]

NoTask == [pc |-> "none", kind |-> "none", path |-> "", src |-> "", status |-> 0,
           total |-> 0, left |-> 0, error |-> "none", progress |-> <<>>]

\* event.plain_result(...) and event.chain_result(...)
Plain(tag) == [kind |-> "plain", tag |-> tag, data |-> <<>>]
Chain(tag, data) == [kind |-> "chain", tag |-> tag, data |-> data]

\* the Nodes object of create_forward_message, one node per content item
Forward(tag, nodes) == [kind |-> "forward", tag |-> tag, data |-> nodes]
TextNode(tag) == [type |-> "text", file |-> tag, src |-> "", index |-> 0, of |-> 0]
\* an image and its caption "index/of"
ImageNode(file, src, index, of) ==
    [type |-> "image", file |-> file, src |-> src, index |-> index, of |-> of]

Emit(rq, reply) == [rq EXCEPT !.replies = Append(@, reply)]
\* the generator returns
Return(rq) == [rq EXCEPT !.pc = "done"]
\* an exception leaves the generator
Raise(rq) == [rq EXCEPT !.pc = "done", !.raised = TRUE]
At(rq, pc) == [rq EXCEPT !.pc = pc]
\* the request issues a network call; after is the number of replies it
\* has yielded by then
Call(rq, what) ==
    [rq EXCEPT !.calls = Append(@, [what |-> what, after |-> Len(rq.replies)])]
RECURSIVE Calls(_, _, _)
Calls(rq, what, n) == IF n = 0 THEN rq ELSE Calls(Call(rq, what), what, n - 1)
\* a step of the request fails, with the calls and replies so far
Fail(rq, what) ==
    [rq EXCEPT !.failed = [what |-> what, calls |-> Len(rq.calls),
                           replies |-> Len(rq.replies)]]

Terminal(task) == task.pc \in {"none", "done", "failed"}

(***************************************************************************)
(* main.py: a message arrives and the host runs the handler whose pattern  *)
(* it matches, with the configured credential.                             *)
(***************************************************************************)
Dispatch(r, handlers) ==
    /\ req[r].pc = "idle"
    /\ \E msg \in {m \in Messages : Handler(m) \in handlers \cup {"none"}},
          cred \in BOOLEAN, maxdur \in DurationMaxima :
          req' = [req EXCEPT ![r] =
                    [IdleReq EXCEPT !.msg = msg,
                                    !.handler = Handler(msg),
                                    !.cred = cred,
                                    !.maxdur = maxdur,
                                    !.pc = IF Handler(msg) = "none" THEN "done" ELSE "start"]]
    /\ UNCHANGED <<tasks, disk, cache, now, saved, statVars>>

\* The host is done with a handler whose generator has ended and whose
\* downloads have all ended.  The files the request left behind stay where
\* they are; the model follows them no further.
Collect(r) ==
    /\ req[r].pc = "done"
    /\ \A i \in TaskSlots : Terminal(tasks[r][i])
    /\ req' = [req EXCEPT ![r] = IdleReq]
    /\ tasks' = [tasks EXCEPT ![r] = [i \in TaskSlots |-> NoTask]]
    /\ disk' = disk \ req[r].written
    /\ UNCHANGED <<cache, now, saved, statVars>>

\* time passes between two messages
Tick ==
    /\ \A r \in Reqs : req[r].pc = "idle"
    /\ \E t \in Clock : t > now /\ now' = t
    /\ UNCHANGED <<req, tasks, disk, cache, saved, statVars>>

(***************************************************************************)
(* core/common.py: remove_files, on the set of existing paths.             *)
(***************************************************************************)
remove_files(files, file_paths) == files \ file_paths

(***************************************************************************)
(* core/bili23.py: process_bilibili_url.  One action runs the handler from *)
(* one await or yield to the next.                                         *)
(***************************************************************************)
\* a variant that tests for an article before it tests for a live room
BiliBranch_article_first(url, credential) ==
    IF (Contains(url, "t.bilibili.com") \/ Contains(url, "/opus/")) /\ credential
    THEN "dynamic"
    ELSE IF Contains(url, "/read/cv") THEN "article"
    ELSE IF Contains(url, "live.bilibili.com") THEN "live"
    ELSE IF Contains(url, "favlist") /\ credential THEN "favorites"
    ELSE IF ~IsVideoLink(url) THEN "unsupported"
    ELSE "video"

\* a variant that reads a favorites link without a credential too
BiliBranch_open_favorites(url, credential) ==
    IF (Contains(url, "t.bilibili.com") \/ Contains(url, "/opus/")) /\ credential
    THEN "dynamic"
    ELSE IF Contains(url, "live.bilibili.com") THEN "live"
    ELSE IF Contains(url, "/read/cv") THEN "article"
    ELSE IF Contains(url, "favlist") THEN "favorites"
    ELSE IF ~IsVideoLink(url) THEN "unsupported"
    ELSE "video"

\* lines 133, 196, 219, 238, 254: the branch a URL takes, the conditions
\* read in the order of the code
BiliBranch(url, credential) ==
    IF (Contains(url, "t.bilibili.com") \/ Contains(url, "/opus/")) /\ credential
    THEN "dynamic"
    ELSE IF Contains(url, "live.bilibili.com") THEN "live"
    ELSE IF Contains(url, "/read/cv") THEN "article"
    ELSE IF Contains(url, "favlist") /\ credential THEN "favorites"
    ELSE IF ~IsVideoLink(url) THEN "unsupported"
    ELSE "video"

\* lines 131-268: the branch runs to its first await or to its end
BiliRoute(rq, url) ==
    LET b == BiliBranch(url, rq.cred)
        q == [rq EXCEPT !.url = url, !.resolved = url, !.branch = b]
    IN  CASE b = "dynamic" ->
                LET u == DropQuery(url)
                    m == dynamic_match(u)
                    qd == [q EXCEPT !.url = u]
                IN  IF m = None THEN Return(Emit(qd, Plain("dynamic_no_id")))
                    ELSE IF ~IsDigits(m)
                    THEN Return(Emit(Fail(qd, "parse"), Plain("dynamic_failed")))
                    ELSE Call([qd EXCEPT !.id = m, !.pc = "b_dynamic"], "dynamic_info")
          [] b = "live" ->
                LET m == room_id_match(url)
                IN  IF m = None THEN Return(Emit(q, Plain("live_no_id")))
                    ELSE Call([q EXCEPT !.id = m, !.pc = "b_live"], "live_info")
          [] b = "article" ->
                LET m == cv_match(url)
                IN  IF m = None THEN Return(Emit(q, Plain("article_no_id")))
                    ELSE Call([q EXCEPT !.id = m, !.pc = "b_article"], "article_info")
          [] b = "favorites" ->
                LET m == fid_match(url)
                IN  IF m = None THEN Return(Emit(q, Plain("favorites_no_id")))
                    ELSE Return(Emit([q EXCEPT !.id = m], Plain("favorites")))
          [] b = "unsupported" ->
                LET m == url_reg_search(url)
                IN  IF m # None THEN Return(Emit(q, Chain("unsupported", m)))
                    ELSE Return(q)
          [] b = "video" ->
                LET m == video_id_match(url)
                IN  IF m = None THEN Return(Emit(q, Plain("video_no_id")))
                    ELSE Call([q EXCEPT !.id = m, !.pc = "b_get_info"], "video_info")

\* lines 111-124: to the short-link request or into the branches
bili_start(r) ==
    /\ req[r].pc = "start"
    /\ req[r].handler = "bilibili"
    /\ LET url == BvPreprocess(req[r].msg)
           rq == [req[r] EXCEPT !.url = url]
       IN  req' = [req EXCEPT ![r] =
                IF IsShortLink(url)
                THEN IF b_short_match(url) = None
                     THEN Return(Emit(Fail([rq EXCEPT !.branch = "short_failed"], "resolve"),
                                      Plain("short_link_failed")))
                     ELSE Call(At(rq, "b_short"), "resolve")
                ELSE BiliRoute(rq, url)]
    /\ UNCHANGED <<tasks, disk, cache, now, saved, statVars>>

\* lines 125-130: the short link resolves, following redirects, or the
\* request fails
bili_short_resolved(r) ==
    /\ req[r].pc = "b_short"
    /\ \E url \in ShortTargets :
          req' = [req EXCEPT ![r] = BiliRoute(req[r], url)]
    /\ UNCHANGED <<tasks, disk, cache, now, saved, statVars>>

\* a variant that asks again when the request fails
bili_short_failed_retry(r) ==
    /\ req[r].pc = "b_short"
    /\ req' = [req EXCEPT ![r] = Call(Fail(req[r], "resolve"), "resolve")]
    /\ UNCHANGED <<tasks, disk, cache, now, saved, statVars>>

bili_short_failed(r) ==
    /\ req[r].pc = "b_short"
    /\ req' = [req EXCEPT ![r] =
                Return(Emit(Fail([req[r] EXCEPT !.branch = "short_failed"], "resolve"),
                            Plain("short_link_failed")))]
    /\ UNCHANGED <<tasks, disk, cache, now, saved, statVars>>

\* lines 146-194, 205-216, 228-235: the upstream call of the dynamic, live
\* and article branches answers, or raises into the branch's except
bili_branch_reply(r) ==
    /\ req[r].pc \in {"b_dynamic", "b_live", "b_article"}
    /\ \E ok \in BOOLEAN :
          req' = [req EXCEPT ![r] =
                    IF ok THEN Return(Emit(req[r], Chain(req[r].branch, req[r].id)))
                    ELSE Return(Emit(Fail(req[r], "fetch"),
                                     Plain(req[r].branch \o "_failed")))]
    /\ UNCHANGED <<tasks, disk, cache, now, saved, statVars>>

\* lines 267-294: Video(...).get_info() answers; the part and the duration
bili_get_info(r) ==
    /\ req[r].pc = "b_get_info"
    /\ \E video_info \in VideoInfos \cup {PyNone} :
          LET d == EffectiveDuration(video_info, req[r].url)
          IN  req' = [req EXCEPT ![r] =
                        IF video_info = PyNone
                        THEN Return(Emit(Fail(req[r], "fetch"), Plain("video_no_data")))
                        ELSE IF d.ok
                        THEN Call([req[r] EXCEPT !.info = video_info,
                                                 !.page_num = d.page_num,
                                                 !.duration = d.duration,
                                                 !.pc = "b_online"], "online")
                        ELSE Raise(Fail([req[r] EXCEPT !.info = video_info,
                                                       !.page_num = d.page_num], "parse"))]
    /\ UNCHANGED <<tasks, disk, cache, now, saved, statVars>>

\* an upstream call of the video branch raises: nothing catches it
bili_call_raises(r) ==
    /\ req[r].pc \in {"b_get_info", "b_online", "b_download_url"}
    /\ req' = [req EXCEPT ![r] = Raise(Fail(req[r], "fetch"))]
    /\ UNCHANGED <<tasks, disk, cache, now, saved, statVars>>

\* lines 298-312: get_online() answers and the caption is yielded
bili_caption(r) ==
    /\ req[r].pc = "b_online"
    /\ req' = [req EXCEPT ![r] =
                Call(At(Emit(req[r],
                             Chain("caption",
                                   [warning |-> OverLength(req[r].duration, req[r].maxdur),
                                    stats |-> extra_bili_info(StatFn(req[r].info))])),
                        "b_download_url"),
                     "download_url")]
    /\ UNCHANGED <<tasks, disk, cache, now, saved, statVars>>

BiliPath(rq, suffix) == "bilibili_cache/" \o rq.id \o suffix
BiliStreams(rq) == {BiliPath(rq, "-video.m4s"), BiliPath(rq, "-audio.m4s")}

NewTask(kind, path, src) ==
    [NoTask EXCEPT !.pc = "connect", !.kind = kind, !.path = path, !.src = src]

\* lines 314-324: get_download_url() answers; the two downloads are
\* scheduled by asyncio.gather
bili_download_url(r) ==
    /\ req[r].pc = "b_download_url"
    /\ req' = [req EXCEPT ![r] = Call(Call(At(req[r], "b_gather"), "download"), "download")]
    /\ tasks' = [tasks EXCEPT ![r] =
                    [i \in TaskSlots |->
                        IF i = 1 THEN NewTask("bili", BiliPath(req[r], "-video.m4s"), "video_url")
                        ELSE IF i = 2 THEN NewTask("bili", BiliPath(req[r], "-audio.m4s"), "audio_url")
                        ELSE NoTask]]
    /\ UNCHANGED <<disk, cache, now, saved, statVars>>

\* lines 322-324: both downloads returned
bili_gather_done(r) ==
    /\ req[r].pc = "b_gather"
    /\ \A i \in {1, 2} : tasks[r][i].pc = "done"
    /\ req' = [req EXCEPT ![r] = At(req[r], "b_merge")]
    /\ UNCHANGED <<tasks, disk, cache, now, saved, statVars>>

\* lines 322-328: a download raised; gather raises it in the handler, the
\* finally block removes the two stream files and the exception goes on.
\* gather does not cancel the other download.
bili_gather_raises(r) ==
    /\ req[r].pc = "b_gather"
    /\ \E i \in {1, 2} : tasks[r][i].pc = "failed"
    /\ disk' = remove_files(disk, BiliStreams(req[r]))
    /\ req' = [req EXCEPT ![r] = Raise(Fail(req[r], "download"))]
    /\ UNCHANGED <<tasks, cache, now, saved, statVars>>

\* lines 325-331: merge_file_to_mp4 runs ffmpeg (its exit status is not
\* read), the finally block removes the stream files, the video is yielded
bili_merge(r) ==
    /\ req[r].pc = "b_merge"
    /\ \E out \in {"ok", "ffmpeg_failed", "raised"} :
          /\ disk' = remove_files(
                        disk \cup (IF out = "ok" THEN {BiliPath(req[r], ".mp4")} ELSE {}),
                        BiliStreams(req[r]))
          /\ req' = [req EXCEPT ![r] =
                        IF out = "raised"
                        THEN Raise(Fail([req[r] EXCEPT !.muxed = TRUE], "mux"))
                        ELSE At(Emit([req[r] EXCEPT !.muxed = TRUE],
                                     Chain("video", BiliPath(req[r], ".mp4"))),
                                "b_sent")]
    /\ UNCHANGED <<tasks, cache, now, saved, statVars>>

\* a variant that tells the user when the summary cannot be had
bili_summary_reports(r) ==
    /\ req[r].pc = "b_sent"
    /\ \E out \in {"summary", "none", "raised"} :
          req' = [req EXCEPT ![r] =
                    IF ~req[r].cred THEN Return([req[r] EXCEPT !.summary = "skipped"])
                    ELSE IF out = "summary"
                    THEN Return(Emit([req[r] EXCEPT !.summary = "sent"], Plain("ai_summary")))
                    ELSE IF out = "none" THEN Return([req[r] EXCEPT !.summary = "empty"])
                    ELSE Return(Emit(Fail([req[r] EXCEPT !.summary = "failed"], "summary"),
                                     Plain("ai_summary_failed")))]
    /\ UNCHANGED <<tasks, disk, cache, now, saved, statVars>>

\* lines 333-342: the AI summary, when there is a credential.  The part's
\* cid is read and get_ai_conclusion is called inside the try; whatever
\* they raise is passed over.
bili_summary(r) ==
    /\ req[r].pc = "b_sent"
    /\ \E out \in {"summary", "none", "raised"} :
          LET has_cid ==
                  /\ HasKey(req[r].info, "pages")
                  /\ HasKey(Index(Get(req[r].info, "pages", PyNone), req[r].page_num), "cid")
          IN  req' = [req EXCEPT ![r] =
                    IF ~req[r].cred THEN Return([req[r] EXCEPT !.summary = "skipped"])
                    ELSE IF ~has_cid
                    THEN Return(Fail([req[r] EXCEPT !.summary = "failed"], "summary"))
                    ELSE IF out = "summary"
                    THEN Return(Emit(Call([req[r] EXCEPT !.summary = "sent"], "ai_conclusion"),
                                     Plain("ai_summary")))
                    ELSE IF out = "none"
                    THEN Return(Call([req[r] EXCEPT !.summary = "empty"], "ai_conclusion"))
                    ELSE Return(Fail(Call([req[r] EXCEPT !.summary = "failed"], "ai_conclusion"),
                                     "summary"))]
    /\ UNCHANGED <<tasks, disk, cache, now, saved, statVars>>

(***************************************************************************)
(* core/douyin.py: process_douyin_url.                                     *)
(***************************************************************************)
\* line 237: (http:|https:)\/\/v.douyin.com\/[A-Za-z\d._?%&+\-=#]*, re.I
douyin_match(msg) ==
    SearchPrefixRunI(msg, {"http://v~douyin~com/", "https://v~douyin~com/"},
                     DouyinChars, 0)

\* line 329: .*(video|note)\/(\d+)\/?.*?, re.I, group 2
id_match(url) == SearchLastGroupI(url, {"video/", "note/"}, Digits)

\* line 142: share\/slides\/(\d+), group 1
slide_id_match(url) == SearchGroup(url, "share/slides/", Digits)

\* the suffix random.randint(1000, 9999) gives a file name
RandSamples == {1000, 9999}

\* line 207: img_{int(time.time())}_{random.randint(1000, 9999)}.jpg
DouyinPath(time, rand) ==
    "douyin_cache/img_" \o ToString(time) \o "_" \o ToString(rand) \o ".jpg"

ImageUrl(i) == "img" \o ToString(i)
ImageList(n) == [i \in 1..n |-> ImageUrl(i)]

\* what get_douyin_slide_info returns: (cover, author, images)
SlideInfo(cover, author, images) == [cover |-> cover, author |-> author, images |-> images]
NoSlideInfo == SlideInfo(None, None, <<>>)

\* lines 98-119: the third-party API names an image set with images
ThirdPartySlides ==
    {SlideInfo("cover", "author", ImageList(n)) : n \in 1..MaxImages}
    \cup {SlideInfo("cover", "author", <<None, ImageUrl(2)>>)}

\* lines 149-164: the item of the official API
FallbackSlides ==
    {SlideInfo("cover", "author", ImageList(n)) : n \in 0..MaxImages}
    \cup {SlideInfo(None, "author", ImageList(1)), NoSlideInfo}

\* the entries of images that are downloaded, in order (lines 282-284)
RECURSIVE NotNone(_)
NotNone(images) ==
    IF images = <<>> THEN <<>>
    ELSE (IF Head(images) # None THEN <<Head(images)>> ELSE <<>>) \o NotNone(Tail(images))

\* lines 260-288 and 325: the cover reply, then the downloads are scheduled
\* by asyncio.gather; without images the handler returns
DouyinSlides(r, rq, info) ==
    IF info.author # None /\ info.cover # None
    THEN LET q == Emit([rq EXCEPT !.images = info.images], Chain("slide_cover", info.cover))
             urls == NotNone(info.images)
         IN  IF Len(info.images) = 0
             THEN /\ req' = [req EXCEPT ![r] = Return(q)]
                  /\ UNCHANGED tasks
             ELSE /\ req' = [req EXCEPT ![r] = Calls(At(q, "d_gather"), "download", Len(urls))]
                  /\ \E rand \in [1..Len(urls) -> RandSamples] :
                        tasks' = [tasks EXCEPT ![r] =
                            [i \in TaskSlots |->
                                IF i <= Len(urls)
                                THEN NewTask("douyin_image", DouyinPath(now, rand[i]), urls[i])
                                ELSE NoTask]]
    ELSE /\ req' = [req EXCEPT ![r] = Return(Emit(rq, Plain("slide_failed")))]
         /\ UNCHANGED tasks

\* lines 233-342: the link, its resolution by get_redirect_url (which does
\* not await), and the way to the first awaited request
douyin_start(r) ==
    /\ req[r].pc = "start"
    /\ req[r].handler = "douyin"
    /\ LET douyin_url == douyin_match(Strip(req[r].msg))
       IN  IF douyin_url = None
           THEN req' = [req EXCEPT ![r] = Return(Emit(req[r], Plain("douyin_no_link")))]
           ELSE \E response \in get_redirect_request(douyin_url) :
                  LET dou_url_2 == get_redirect_url(response)
                      rq == Call([req[r] EXCEPT !.url = douyin_url, !.resp = response,
                                                !.resolved = dou_url_2], "resolve")
                  IN  req' = [req EXCEPT ![r] =
                        IF dou_url_2 = None \/ dou_url_2 = ""
                        THEN Return(Emit(Fail(rq, "resolve"), Plain("douyin_short_failed")))
                        ELSE IF Contains(dou_url_2, "share/slides")
                        THEN Call(At([rq EXCEPT !.branch = "slides"], "d_slide_api"),
                                  "third_party")
                        ELSE IF id_match(dou_url_2) = None
                        THEN Return(Emit(rq, Plain("douyin_no_id")))
                        ELSE IF ~rq.cred
                        THEN Return(Emit([rq EXCEPT !.id = id_match(dou_url_2)],
                                         Plain("douyin_no_cookie")))
                        ELSE Call(At([rq EXCEPT !.id = id_match(dou_url_2), !.branch = "note"],
                                     "d_api"), "detail")]
    /\ UNCHANGED <<tasks, disk, cache, now, saved, statVars>>

\* lines 98-119: the third-party API answers with an image set
douyin_slide_info(r) ==
    /\ req[r].pc = "d_slide_api"
    /\ \E info \in ThirdPartySlides : DouyinSlides(r, req[r], info)
    /\ UNCHANGED <<disk, cache, now, saved, statVars>>

\* lines 104-106, 121-124, 133-147: the third-party answer is of no use or
\* the call raises; the fallback resolves the short link once more
douyin_slide_fallback(r) ==
    /\ req[r].pc = "d_slide_api"
    /\ \E response \in get_redirect_request(req[r].url) :
          LET real_url == get_redirect_url(response)
              rq == Call(Fail([req[r] EXCEPT !.resp = response, !.resolved = real_url],
                              "third_party"),
                         "resolve")
          IN  IF real_url = None \/ real_url = ""
              THEN DouyinSlides(r, Fail(rq, "resolve"), NoSlideInfo)
              ELSE IF slide_id_match(real_url) = None
              THEN DouyinSlides(r, rq, NoSlideInfo)
              ELSE /\ req' = [req EXCEPT ![r] = Call(At(rq, "d_slide_fallback"), "official_api")]
                   /\ UNCHANGED tasks
    /\ UNCHANGED <<disk, cache, now, saved, statVars>>

\* lines 149-167: the official API answers, or the call raises
douyin_slide_fallback_info(r) ==
    /\ req[r].pc = "d_slide_fallback"
    /\ \E info \in FallbackSlides :
          DouyinSlides(r, IF info = NoSlideInfo THEN Fail(req[r], "fetch") ELSE req[r], info)
    /\ UNCHANGED <<disk, cache, now, saved, statVars>>

\* what asyncio.gather returns at line 287: a path per download, None for
\* a download that failed
downloaded_images(r) ==
    [i \in 1..Len(NotNone(req[r].images)) |->
        IF tasks[r][i].pc = "done" THEN tasks[r][i].path ELSE None]

\* a variant that numbers the images that were downloaded
RECURSIVE SlideNodes_renumbered(_, _, _)
SlideNodes_renumbered(paths, srcs, i) ==
    LET n == Len(NotNone(paths))
        RECURSIVE Go(_, _)
        Go(k, done) ==
            IF k > Len(paths) THEN <<>>
            ELSE IF paths[k] = None THEN Go(k + 1, done)
            ELSE <<ImageNode(paths[k], srcs[k], done + 1, n)>> \o Go(k + 1, done + 1)
    IN  Go(i, 0)

\* lines 292-297: for i, image_path in enumerate(downloaded_images), from
\* index i on: a node per path that is not None, captioned i+1/len
RECURSIVE SlideNodes(_, _, _)
SlideNodes(paths, srcs, i) ==
    IF i > Len(paths) THEN <<>>
    ELSE (IF paths[i] # None
          THEN <<ImageNode(paths[i], srcs[i], i, Len(paths))>>
          ELSE <<>>) \o SlideNodes(paths, srcs, i + 1)

RECURSIVE EmitAll(_, _)
EmitAll(rq, replies) ==
    IF replies = <<>> THEN rq ELSE EmitAll(Emit(rq, Head(replies)), Tail(replies))

\* lines 288-315: every download returned; the bundle is composed and
\* yielded, or, when send_forward_message raises, the images one by one
douyin_gather_done(r) ==
    /\ req[r].pc = "d_gather"
    /\ \A i \in TaskSlots : Terminal(tasks[r][i])
    /\ LET nodes == SlideNodes(downloaded_images(r), NotNone(req[r].images), 1)
           rq == IF \E i \in 1..Len(downloaded_images(r)) : downloaded_images(r)[i] = None
                 THEN Fail(req[r], "download") ELSE req[r]
       IN  \E sent \in BOOLEAN :
              req' = [req EXCEPT ![r] =
                        At(IF sent
                           THEN Emit(rq, Forward("slides", <<TextNode("intro")>> \o nodes))
                           ELSE EmitAll(Emit(Fail(rq, "send"), Plain("forward_failed")),
                                        [k \in 1..Len(nodes) |-> Chain("single", nodes[k])]),
                           "d_cleanup")]
    /\ UNCHANGED <<tasks, disk, cache, now, saved, statVars>>

\* lines 317-323: the paths that were returned are removed
douyin_cleanup(r) ==
    /\ req[r].pc = "d_cleanup"
    /\ disk' = disk \ {downloaded_images(r)[i] : i \in 1..Len(downloaded_images(r))}
    /\ req' = [req EXCEPT ![r] = Return(req[r])]
    /\ UNCHANGED <<tasks, cache, now, saved, statVars>>

\* aweme_detail as the handler reads it: the type URL_TYPE_CODE_DICT gives,
\* play_addr.uri, the first cover URL, and the url_list of every image
Detail(type, uri, cover, images) ==
    [type |-> type, uri |-> uri, cover |-> cover, images |-> images]

UrlLists(i) == {<<>>, <<ImageUrl(i) \o "_0">>, <<ImageUrl(i) \o "_0", ImageUrl(i) \o "_1">>}

Details ==
    {Detail("video", uri, cover, <<>>) : uri \in {None, "uri"}, cover \in {None, "cover"}}
    \cup UNION {{Detail("image", None, None, images) :
                    images \in {l \in [1..n -> UNION {UrlLists(i) : i \in 1..n}] :
                                   \A i \in 1..n : l[i] \in UrlLists(i)}} :
                n \in 0..MaxImages}

\* lines 415-421, from index i on; ok is FALSE when url_list[1] raises
\* IndexError
RECURSIVE NoteNodes(_, _)
NoteNodes(images, i) ==
    IF i > Len(images) THEN [ok |-> TRUE, nodes |-> <<>>]
    ELSE IF Len(images[i]) = 0 THEN NoteNodes(images, i + 1)
    ELSE IF Len(images[i]) < 2 THEN [ok |-> FALSE, nodes |-> <<>>]
    ELSE LET rest == NoteNodes(images, i + 1)
         IN  [ok |-> rest.ok,
              nodes |-> <<ImageNode("", images[i][2], i, Len(images))>> \o rest.nodes]

\* lines 430-432
DouyinFailed(rq) == Return(Emit(rq, Plain("douyin_failed")))

\* lines 357-428: the API answers with the detail of a video or of an
\* image set
douyin_detail(r) ==
    /\ req[r].pc = "d_api"
    /\ \E detail \in Details, sent \in BOOLEAN :
          req' = [req EXCEPT ![r] =
            IF detail.type = "video"
            THEN IF detail.uri = None
                 THEN Return(Emit(req[r], Plain("douyin_no_play_addr")))
                 ELSE Return(Emit(IF detail.cover # None
                                  THEN Emit(req[r], Chain("douyin_cover", detail.cover))
                                  ELSE req[r],
                                  Chain("douyin_video", detail.uri)))
            ELSE LET q == Emit([req[r] EXCEPT !.images =
                                        [i \in 1..Len(detail.images) |->
                                            IF Len(detail.images[i]) >= 2
                                            THEN detail.images[i][2] ELSE None]],
                               Chain("douyin_info", ""))
                     built == NoteNodes(detail.images, 1)
                 IN  IF Len(detail.images) = 0
                     THEN Return(Emit(q, Plain("douyin_no_images")))
                     ELSE IF ~built.ok THEN DouyinFailed(Fail(q, "parse"))
                     ELSE IF ~sent THEN DouyinFailed(Fail(q, "send"))
                     ELSE Return(Emit(q, Forward("note", <<TextNode("intro")>> \o built.nodes)))]
    /\ UNCHANGED <<tasks, disk, cache, now, saved, statVars>>

\* lines 358-364, 430-432: the request or resp.json() raises, or the
\* answer has no aweme_detail
douyin_api_fails(r) ==
    /\ req[r].pc = "d_api"
    /\ \E out \in {"raised", "no_detail"} :
          req' = [req EXCEPT ![r] =
                    IF out = "raised" THEN DouyinFailed(Fail(req[r], "fetch"))
                    ELSE Return(Emit(Fail(req[r], "fetch"), Plain("douyin_no_detail")))]
    /\ UNCHANGED <<tasks, disk, cache, now, saved, statVars>>

(***************************************************************************)
(* core/xhs.py: the cache file of a note, extract_note_info.               *)
(***************************************************************************)
\* a variant that writes the data without the timestamp wrapper
save_to_cache_bare(files, note_id, data, time) ==
    [files EXCEPT ![note_id] = Dump(data)]

\* a variant that leaves an entry that is already there as it is
save_to_cache_keep(files, note_id, data, time) ==
    IF files[note_id] # <<>> THEN files
    ELSE [files EXCEPT ![note_id] =
            Dump(PyDict(<< <<"timestamp", PyInt(time)>>, <<"data", data>> >>))]

\* lines 88-102: json.dump of {"timestamp": int(time.time()), "data": data}
save_to_cache(files, note_id, data, time) ==
    [files EXCEPT ![note_id] =
        Dump(PyDict(<< <<"timestamp", PyInt(time)>>, <<"data", data>> >>))]

\* a variant that never takes an entry to be too old
Expired_never(timestamp, current_time) == FALSE

\* line 126: current_time - timestamp > max_age
Expired(timestamp, current_time) == current_time - timestamp > max_age

\* lines 114-131; PyNone is Python's None
get_from_cache(files, note_id, current_time) ==
    IF files[note_id] = <<>> THEN PyNone
    ELSE LET cache_data == Load(files[note_id])
             timestamp == Get(cache_data, "timestamp", PyInt(0)).v
         IN  IF Expired(timestamp, current_time) THEN PyNone
             ELSE Get(cache_data, "data", PyNone)

\* lines 163-170, from item i on: the images that have a urlDefault
RECURSIVE image_list(_, _)
image_list(imageList, i) ==
    IF i > Len(imageList) THEN <<>>
    ELSE (IF HasKey(imageList[i], "urlDefault")
             /\ Truthy(Get(imageList[i], "urlDefault", PyNone))
          THEN <<PyDict(<< <<"url", Get(imageList[i], "urlDefault", PyNone)>>,
                           <<"width", Get(imageList[i], "width", PyInt(0))>>,
                           <<"height", Get(imageList[i], "height", PyInt(0))>> >>)>>
          ELSE <<>>) \o image_list(imageList, i + 1)

\* lines 136-209
extract_note_info(note_data) ==
    LET share_info == Get(note_data, "shareInfo", PyDict(<<>>))
        user_info == Get(share_info, "user", PyDict(<<>>))
        note_type == Get(share_info, "type", PyStr("normal"))
        video == Get(note_data, "video", PyDict(<<>>))
        video_info ==
            IF note_type = PyStr("video") /\ HasKey(note_data, "video")
            THEN PyDict(<< <<"url", Get(video, "url", PyStr(""))>>,
                           <<"cover", Get(Get(video, "cover", PyDict(<<>>)), "url", PyStr(""))>> >>)
            ELSE PyDict(<<>>)
    IN  PyDict(<<
            <<"note_id", Get(share_info, "noteId", PyStr(""))>>,
            <<"type", note_type>>,
            <<"title", Get(share_info, "title", PyStr("untitled"))>>,
            <<"desc", Get(note_data, "desc", PyStr(""))>>,
            <<"location", Get(share_info, "location", PyStr(""))>>,
            <<"time", Get(share_info, "time", PyInt(0))>>,
            <<"user", PyDict(<<
                <<"user_id", Get(user_info, "userId", PyStr(""))>>,
                <<"nickname", Get(user_info, "nickname", PyStr("unknown_author"))>>,
                <<"avatar", Get(user_info, "avatar", PyStr(""))>> >>)>>,
            <<"stats", PyDict(<<
                <<"liked", Get(note_data, "liked", PyBool(FALSE))>>,
                <<"like_count", Get(note_data, "likeCount", PyInt(0))>>,
                <<"collected", Get(note_data, "collected", PyBool(FALSE))>>,
                <<"collect_count", Get(note_data, "collectCount", PyInt(0))>>,
                <<"comment_count", Get(note_data, "commentCount", PyInt(0))>>,
                <<"share_count", Get(note_data, "shareCount", PyInt(0))>> >>)>>,
            <<"images", PyList(image_list(Get(note_data, "imageList", PyList(<<>>)).v, 1))>>,
            <<"video", video_info>> >>)

\* the note of the page's window.__INITIAL_STATE__, as upstream sends it
RawNote(note_id, type, title, urls, video_url) ==
    PyDict(<< <<"liked", PyBool(TRUE)>>, <<"likeCount", PyInt(12)>>,
              <<"commentCount", PyInt(3)>>,
              <<"desc", PyStr("")>>,
              <<"shareInfo", PyDict(<< <<"noteId", PyStr(note_id)>>,
                                       <<"type", PyStr(type)>>,
                                       <<"title", PyStr(title)>>,
                                       <<"location", PyNone>>,
                                       <<"user", PyDict(<< <<"nickname", PyStr("au\\thor")>> >>)>> >>)>>,
              <<"imageList", PyList([i \in 1..Len(urls) |->
                                        PyDict(<< <<"urlDefault", PyStr(urls[i])>>,
                                                  <<"width", PyInt(1080)>> >>)])>> >>
           \o (IF video_url = None THEN <<>>
               ELSE << <<"video", PyDict(<< <<"url", PyStr(video_url)>> >>)>> >>))

\* what upstream may hold for a note
RawNotes(note_id) ==
    IF note_id = "n1"
    THEN {RawNote(note_id, "normal", "a \"title\"", ImageList(MaxImages), None),
          RawNote(note_id, "normal", "t", <<"">> \o ImageList(MaxImages - 1), None)}
    ELSE {RawNote(note_id, "video", "t", <<>>, "video_url"),
          RawNote(note_id, "video", "t", <<>>, ""),
          RawNote(note_id, "live", "t", <<>>, None)}

(***************************************************************************)
(* core/xhs.py: process_xiaohongshu_url.                                   *)
(***************************************************************************)
\* line 225
msg_url_match(message_str) ==
    SearchPrefixRun(message_str,
        {scheme \o www \o host : scheme \in {"", "http://", "https://"},
                                 www \in {"", "www."},
                                 host \in {"xhslink.com/", "xiaohongshu.com/"}},
        XhsChars, 0)

\* lines 250-254
xhs_id_match(msg_url) ==
    IF SearchGroup(msg_url, "/explore/", WordChars) # None
    THEN SearchGroup(msg_url, "/explore/", WordChars)
    ELSE IF SearchGroup(msg_url, "/discovery/item/", WordChars) # None
    THEN SearchGroup(msg_url, "/discovery/item/", WordChars)
    ELSE SearchGroup(msg_url, "source=note&noteId=", WordChars)

\* where an xhslink.com short link leads, redirects followed
XhsTargets ==
    {"https://www.xiaohongshu.com/discovery/item/n2?xsec_token=tk",
     "https://www.xiaohongshu.com/404"}

\* what the cache holds for a note when a request looks it up, told from
\* the record of the writes
Lookup(note_id) ==
    IF saved[note_id] = PyNone THEN "absent"
    ELSE IF now - saved[note_id].at > max_age THEN "expired"
    ELSE "fresh"

\* lines 310-343: the information reply
XhsInfo(rq, note_data) ==
    IF ~Truthy(note_data) THEN Return(Emit(rq, Plain("xhs_no_content")))
    ELSE At(Emit([rq EXCEPT !.note = note_data], Plain("xhs_info")), "x_content")

\* a variant that asks upstream whatever the cache holds
XhsLookup_nocache(rq, msg_url) ==
    LET xhs_id == xhs_id_match(msg_url)
    IN  IF xhs_id = None THEN Return(Emit(rq, Plain("xhs_no_id")))
        ELSE Call(At([rq EXCEPT !.url = msg_url, !.id = xhs_id,
                                !.lookup = Lookup(xhs_id),
                                !.cached = get_from_cache(cache, xhs_id, now),
                                !.looked_after = Len(rq.calls)],
                     "x_fetch"),
                  "note_page")

\* lines 250-268: the note ID and the cache lookup, to the upstream request
\* or, on a hit, to the information reply
XhsLookup(rq, msg_url) ==
    LET xhs_id == xhs_id_match(msg_url)
    IN  IF xhs_id = None THEN Return(Emit(rq, Plain("xhs_no_id")))
        ELSE LET cached_data == get_from_cache(cache, xhs_id, now)
                 q == [rq EXCEPT !.url = msg_url, !.id = xhs_id,
                                 !.lookup = Lookup(xhs_id), !.cached = cached_data,
                                 !.looked_after = Len(rq.calls)]
             IN  IF Truthy(cached_data) THEN XhsInfo(q, cached_data)
                 ELSE Call(At(q, "x_fetch"), "note_page")

\* a variant that goes on without the cookie
xhs_start_any_cookie(r) ==
    /\ req[r].pc = "start"
    /\ req[r].handler = "xiaohongshu"
    /\ LET msg_url == msg_url_match(Strip(req[r].msg))
       IN  req' = [req EXCEPT ![r] =
                IF msg_url = None THEN Return(req[r])
                ELSE IF Contains(msg_url, "xhslink")
                THEN Call(At([req[r] EXCEPT !.url = msg_url], "x_short"), "resolve")
                ELSE XhsLookup(req[r], msg_url)]
    /\ UNCHANGED <<tasks, disk, cache, now, saved, statVars>>

\* lines 219-247
xhs_start(r) ==
    /\ req[r].pc = "start"
    /\ req[r].handler = "xiaohongshu"
    /\ LET msg_url == msg_url_match(Strip(req[r].msg))
       IN  req' = [req EXCEPT ![r] =
                IF ~req[r].cred THEN Return(Emit(req[r], Plain("xhs_no_cookie")))
                ELSE IF msg_url = None THEN Return(req[r])
                ELSE IF Contains(msg_url, "xhslink")
                THEN Call(At([req[r] EXCEPT !.url = msg_url], "x_short"), "resolve")
                ELSE XhsLookup(req[r], msg_url)]
    /\ UNCHANGED <<tasks, disk, cache, now, saved, statVars>>

\* lines 241-247: the short link resolves, redirects followed, or the
\* request raises
xhs_short(r) ==
    /\ req[r].pc = "x_short"
    /\ \/ \E url \in XhsTargets : req' = [req EXCEPT ![r] = XhsLookup(req[r], url)]
       \/ req' = [req EXCEPT ![r] =
                    Return(Emit(Fail(req[r], "resolve"), Plain("xhs_short_failed")))]
    /\ UNCHANGED <<tasks, disk, cache, now, saved, statVars>>

\* lines 279-343: upstream answers with the note; it is extracted, cached
\* and the information reply follows
xhs_fetched(r) ==
    /\ req[r].pc = "x_fetch"
    /\ \E raw_note_data \in RawNotes(req[r].id) :
          LET note_data == extract_note_info(raw_note_data)
          IN  /\ cache' = save_to_cache(cache, req[r].id, note_data, now)
              /\ saved' = [saved EXCEPT ![req[r].id] = [at |-> now, data |-> note_data]]
              /\ req' = [req EXCEPT ![r] = XhsInfo([req[r] EXCEPT !.fetch = "ok"], note_data)]
    /\ UNCHANGED <<tasks, disk, now, statVars>>

\* a variant that caches an empty record when the page cannot be parsed
xhs_fetch_fails_caches(r) ==
    /\ req[r].pc = "x_fetch"
    /\ \E out \in {"request_failed", "no_state", "parse_failed"} :
          /\ req' = [req EXCEPT ![r] =
                        Return(Emit(Fail([req[r] EXCEPT !.fetch = out], "fetch"),
                                    Plain("xhs_" \o out)))]
          /\ cache' = IF out = "parse_failed"
                      THEN save_to_cache(cache, req[r].id, PyDict(<<>>), now)
                      ELSE cache
    /\ UNCHANGED <<tasks, disk, now, saved, statVars>>

\* lines 279-308: the request raises, the page has no initial state, or
\* the state is not JSON or has no such note
xhs_fetch_fails(r) ==
    /\ req[r].pc = "x_fetch"
    /\ \E out \in {"request_failed", "no_state", "parse_failed"} :
          req' = [req EXCEPT ![r] =
                    Return(Emit(Fail([req[r] EXCEPT !.fetch = out], "fetch"),
                                Plain("xhs_" \o out)))]
    /\ UNCHANGED <<tasks, disk, cache, now, saved, statVars>>

\* line 364: xhs_{xhs_id}_{index}.jpg
XhsImagePath(xhs_id, index) == "temp/xhs_" \o xhs_id \o "_" \o ToString(index) \o ".jpg"

\* line 71: xhs_video_{int(time.time())}_{random.randint(1000, 9999)}.mp4
XhsVideoPath(time, rand) ==
    "temp/xhs_video_" \o ToString(time) \o "_" \o ToString(rand) \o ".mp4"

\* lines 359-366, from item i on: a <<url, path>> per image that has a url
RECURSIVE XhsDownloads(_, _, _)
XhsDownloads(items, xhs_id, i) ==
    IF i > Len(items) THEN <<>>
    ELSE (IF Truthy(Get(items[i], "url", PyStr("")))
          THEN << <<Get(items[i], "url", PyStr("")).v, XhsImagePath(xhs_id, i - 1)>> >>
          ELSE <<>>) \o XhsDownloads(items, xhs_id, i + 1)

\* lines 346-369 and 419-431: the handler goes on after the information
\* reply, to the downloads of the images or of the video
xhs_content(r) ==
    /\ req[r].pc = "x_content"
    /\ LET note_data == req[r].note
           content_type == Get(note_data, "type", PyStr(""))
           images == Get(note_data, "images", PyList(<<>>)).v
           todo == XhsDownloads(images, req[r].id, 1)
           video_url == Get(Get(note_data, "video", PyDict(<<>>)), "url", PyStr(""))
       IN  IF content_type = PyStr("normal")
           THEN IF Len(images) = 0
                THEN /\ req' = [req EXCEPT ![r] = Return(Emit(req[r], Plain("xhs_no_images")))]
                     /\ UNCHANGED tasks
                ELSE IF Len(todo) = 0
                THEN /\ req' = [req EXCEPT ![r] = Return(Emit(req[r], Plain("xhs_download_failed")))]
                     /\ UNCHANGED tasks
                ELSE /\ req' = [req EXCEPT ![r] =
                                  Calls(At([req[r] EXCEPT !.images =
                                                [i \in 1..Len(todo) |-> todo[i][1]]],
                                           "x_gather"),
                                        "download", Len(todo))]
                     /\ tasks' = [tasks EXCEPT ![r] =
                                    [i \in TaskSlots |->
                                        IF i <= Len(todo)
                                        THEN NewTask("xhs_img", todo[i][2], todo[i][1])
                                        ELSE NoTask]]
           ELSE IF content_type = PyStr("video")
           THEN IF ~Truthy(video_url)
                THEN /\ req' = [req EXCEPT ![r] = Return(Emit(req[r], Plain("xhs_no_video_url")))]
                     /\ UNCHANGED tasks
                ELSE /\ req' = [req EXCEPT ![r] = Call(At(req[r], "x_video"), "download")]
                     /\ \E rand \in RandSamples :
                           tasks' = [tasks EXCEPT ![r][1] =
                                        NewTask("xhs_video", XhsVideoPath(now, rand), video_url.v)]
           ELSE /\ req' = [req EXCEPT ![r] = Return(Emit(req[r], Plain("xhs_unsupported")))]
                /\ UNCHANGED tasks
    /\ UNCHANGED <<disk, cache, now, saved, statVars>>

\* the text nodes of lines 378-404
XhsTextNodes(note_data) ==
    <<TextNode("title")>>
    \o (IF Truthy(Get(note_data, "desc", PyStr(""))) THEN <<TextNode("desc")>> ELSE <<>>)
    \o (IF Truthy(Get(note_data, "location", PyStr(""))) THEN <<TextNode("location")>> ELSE <<>>)
    \o <<TextNode("stats")>>
    \o (IF HasKey(note_data, "time") /\ Truthy(Get(note_data, "time", PyNone))
        THEN <<TextNode("time")>> ELSE <<>>)

\* lines 407-411: for i, path in enumerate(image_paths)
XhsImageNodes(image_paths, srcs) ==
    [i \in 1..Len(image_paths) |-> ImageNode(image_paths[i], srcs[i], i, Len(image_paths))]

\* what asyncio.gather returns at line 369
image_paths(r) == [i \in 1..Len(req[r].images) |-> tasks[r][i].path]

\* lines 369-414: every download returned; the bundle is composed and
\* yielded.  Nothing catches send_forward_message raising.
xhs_gather_done(r) ==
    /\ req[r].pc = "x_gather"
    /\ \A i \in 1..Len(req[r].images) : tasks[r][i].pc = "done"
    /\ \E sent \in BOOLEAN :
          req' = [req EXCEPT ![r] =
                    IF sent
                    THEN At(Emit(req[r],
                                 Forward("xhs", XhsTextNodes(req[r].note)
                                                \o XhsImageNodes(image_paths(r), req[r].images))),
                            "x_cleanup")
                    ELSE Raise(Fail(req[r], "send"))]
    /\ UNCHANGED <<tasks, disk, cache, now, saved, statVars>>

\* lines 358-369: a download raised; gather raises it in the handler and
\* nothing catches it.  The session is closed on the way out: a download
\* that has no response yet fails, one that is reading its body goes on to
\* the end of what it gets.
xhs_gather_raises(r) ==
    /\ req[r].pc = "x_gather"
    /\ \E i \in 1..Len(req[r].images) : tasks[r][i].pc = "failed"
    /\ tasks' = [tasks EXCEPT ![r] =
                    [i \in TaskSlots |->
                        IF tasks[r][i].pc = "connect"
                        THEN [tasks[r][i] EXCEPT !.pc = "failed"]
                        ELSE tasks[r][i]]]
    /\ req' = [req EXCEPT ![r] = Raise(Fail(req[r], "download"))]
    /\ UNCHANGED <<disk, cache, now, saved, statVars>>

\* lines 430-436: download_video returned and the video is yielded
xhs_video_done(r) ==
    /\ req[r].pc = "x_video"
    /\ tasks[r][1].pc = "done"
    /\ req' = [req EXCEPT ![r] =
                At(Emit([req[r] EXCEPT !.images = <<tasks[r][1].src>>],
                        Chain("xhs_video", tasks[r][1].path)),
                   "x_cleanup")]
    /\ UNCHANGED <<tasks, disk, cache, now, saved, statVars>>

\* a variant that tries the download a second time
xhs_video_failed_retry(r) ==
    /\ req[r].pc = "x_video"
    /\ tasks[r][1].pc = "failed"
    /\ IF req[r].failed.what = "none"
       THEN /\ req' = [req EXCEPT ![r] = Call(Fail(req[r], "download"), "download")]
            /\ tasks' = [tasks EXCEPT ![r][1] =
                            NewTask("xhs_video", tasks[r][1].path, tasks[r][1].src)]
       ELSE /\ req' = [req EXCEPT ![r] =
                        Return(Emit(Fail(req[r], "download"), Plain("xhs_video_failed")))]
            /\ UNCHANGED tasks
    /\ UNCHANGED <<disk, cache, now, saved, statVars>>

\* lines 439-440: download_video raised
xhs_video_failed(r) ==
    /\ req[r].pc = "x_video"
    /\ tasks[r][1].pc = "failed"
    /\ req' = [req EXCEPT ![r] =
                Return(Emit(Fail(req[r], "download"), Plain("xhs_video_failed")))]
    /\ UNCHANGED <<tasks, disk, cache, now, saved, statVars>>

\* lines 417 and 438: remove_files on the paths the downloads returned
xhs_cleanup(r) ==
    /\ req[r].pc = "x_cleanup"
    /\ disk' = remove_files(disk, {image_paths(r)[i] : i \in 1..Len(image_paths(r))})
    /\ req' = [req EXCEPT ![r] = Return(req[r])]
    /\ UNCHANGED <<tasks, cache, now, saved, statVars>>

(***************************************************************************)
(* The download coroutines: download_b_file (bili23.py), download_img and  *)
(* download_video (xhs.py), download_image (douyin.py).                    *)
(***************************************************************************)
SetTask(r, i, task) == tasks' = [tasks EXCEPT ![r][i] = task]

\* the request fails before a response: download_image catches it and
\* returns None, the others raise
task_connect_fails(r, i) ==
    /\ tasks[r][i].pc = "connect"
    /\ SetTask(r, i, [tasks[r][i] EXCEPT !.pc = "failed", !.error = "connect"])
    /\ UNCHANGED <<req, disk, cache, now, saved, statVars>>

\* round(current_len / total_len, 3) in thousandths; no quotient of the
\* lengths of the model lies halfway between two thousandths
Round3(current_len, total_len) == (2000 * current_len + total_len) \div (2 * total_len)

\* The response arrives and the file is opened for writing.  Only
\* download_image reads the status (a status other than 200 returns None
\* before the file is opened); only download_b_file reads content-length,
\* 0 when the header is absent, the length of the body (a unit for each
\* chunk) when it is there.
task_response(r, i) ==
    /\ tasks[r][i].pc = "connect"
    /\ \E status \in (IF tasks[r][i].kind \in {"bili", "douyin_image"} THEN {200, 403} ELSE {200}),
          known \in (IF tasks[r][i].kind = "bili" THEN BOOLEAN ELSE {TRUE}),
          n \in 0..MaxChunks :
          IF tasks[r][i].kind = "douyin_image" /\ status # 200
          THEN /\ SetTask(r, i, [tasks[r][i] EXCEPT !.pc = "failed", !.status = status,
                                                     !.error = "status"])
               /\ UNCHANGED <<req, disk>>
          ELSE /\ SetTask(r, i,
                          IF n = 0
                          THEN [tasks[r][i] EXCEPT !.pc = "done", !.status = status]
                          ELSE [tasks[r][i] EXCEPT !.pc = "stream", !.status = status,
                                                   !.total = IF known THEN n ELSE 0,
                                                   !.left = n])
               /\ disk' = disk \cup {tasks[r][i].path}
               /\ req' = [req EXCEPT ![r].written = @ \cup {tasks[r][i].path}]
    /\ UNCHANGED <<cache, now, saved, statVars>>

\* a chunk is written; download_b_file then calls progress_callback with
\* round(current_len / total_len, 3), and the division raises
\* ZeroDivisionError when total_len is 0
task_chunk(r, i) ==
    /\ tasks[r][i].pc = "stream"
    /\ tasks[r][i].left > 0
    /\ LET t == tasks[r][i]
           reported == IF t.kind = "bili"
                       THEN [t EXCEPT !.progress =
                                Append(@, Round3(t.total - t.left + 1, t.total))]
                       ELSE t
       IN  SetTask(r, i,
               IF t.kind = "bili" /\ t.total = 0
               THEN [t EXCEPT !.pc = "failed", !.total = 0, !.left = 0,
                              !.error = "progress"]
               ELSE IF t.left = 1
               THEN [reported EXCEPT !.pc = "done", !.total = 0, !.left = 0]
               ELSE [reported EXCEPT !.left = @ - 1])
    /\ UNCHANGED <<req, disk, cache, now, saved, statVars>>

\* the body breaks off
task_stream_fails(r, i) ==
    /\ tasks[r][i].pc = "stream"
    /\ SetTask(r, i, [tasks[r][i] EXCEPT !.pc = "failed", !.total = 0, !.left = 0,
                                          !.error = "stream"])
    /\ UNCHANGED <<req, disk, cache, now, saved, statVars>>

(***************************************************************************)
(* The specification: messages are handled one at a time.                  *)
(***************************************************************************)
Init ==
    /\ req = [r \in Reqs |-> IdleReq]
    /\ tasks = [r \in Reqs |-> [i \in TaskSlots |-> NoTask]]
    /\ disk = {}
    /\ cache = [x \in NoteIds |-> <<>>]
    /\ now = 0
    /\ saved = [x \in NoteIds |-> PyNone]
    /\ video_state = [k \in {StatKeys[i] : i \in 1..Len(StatKeys)} |-> 0]
    /\ stat_i = 0
    /\ video_info_result = ""

Download(r) ==
    \E i \in TaskSlots :
        \/ task_connect_fails(r, i)
        \/ task_response(r, i)
        \/ task_chunk(r, i)
        \/ task_stream_fails(r, i)

Bilibili(r) ==
    \/ bili_start(r)
    \/ bili_short_resolved(r)
    \/ bili_short_failed(r)
    \/ bili_branch_reply(r)
    \/ bili_get_info(r)
    \/ bili_call_raises(r)
    \/ bili_caption(r)
    \/ bili_download_url(r)
    \/ bili_gather_done(r)
    \/ bili_gather_raises(r)
    \/ bili_merge(r)
    \/ bili_summary(r)

Douyin(r) ==
    \/ douyin_start(r)
    \/ douyin_slide_info(r)
    \/ douyin_slide_fallback(r)
    \/ douyin_slide_fallback_info(r)
    \/ douyin_gather_done(r)
    \/ douyin_cleanup(r)
    \/ douyin_detail(r)
    \/ douyin_api_fails(r)

Xiaohongshu(r) ==
    \/ xhs_start(r)
    \/ xhs_short(r)
    \/ xhs_fetched(r)
    \/ xhs_fetch_fails(r)
    \/ xhs_content(r)
    \/ xhs_gather_done(r)
    \/ xhs_gather_raises(r)
    \/ xhs_video_done(r)
    \/ xhs_video_failed(r)
    \/ xhs_cleanup(r)

Next ==
    \/ Dispatch("r1", {"bilibili", "douyin", "xiaohongshu"})
    \/ Collect("r1")
    \/ Bilibili("r1")
    \/ Douyin("r1")
    \/ Xiaohongshu("r1")
    \/ Download("r1")
    \/ Tick

Spec == Init /\ [][Next]_vars

(***************************************************************************)
(* The three handlers share no state (each has its own directory of        *)
(* temporary files, the cache belongs to xhs.py): each is also specified   *)
(* on its own, with the messages that reach it and those that reach no     *)
(* handler.                                                                *)
(***************************************************************************)
NextBili ==
    \/ Dispatch("r1", {"bilibili"})
    \/ Collect("r1")
    \/ Bilibili("r1")
    \/ Download("r1")

SpecBili == Init /\ [][NextBili]_vars

NextDouyin ==
    \/ Dispatch("r1", {"douyin"})
    \/ Collect("r1")
    \/ Douyin("r1")
    \/ Download("r1")
    \/ Tick

SpecDouyin == Init /\ [][NextDouyin]_vars

NextXhs ==
    \/ Dispatch("r1", {"xiaohongshu"})
    \/ Collect("r1")
    \/ Xiaohongshu("r1")
    \/ Download("r1")
    \/ Tick

SpecXhs == Init /\ [][NextXhs]_vars

\* the two handlers that compose forwarded bundles, at one time of day
NextBundles ==
    \/ Dispatch("r1", {"douyin", "xiaohongshu"})
    \/ Collect("r1")
    \/ Douyin("r1")
    \/ Xiaohongshu("r1")
    \/ Download("r1")

SpecBundles == Init /\ [][NextBundles]_vars

\* the three handlers, at one time of day
NextHandlers ==
    \/ Dispatch("r1", {"bilibili", "douyin", "xiaohongshu"})
    \/ Collect("r1")
    \/ Bilibili("r1")
    \/ Douyin("r1")
    \/ Xiaohongshu("r1")
    \/ Download("r1")

SpecHandlers == Init /\ [][NextHandlers]_vars

(***************************************************************************)
(* Two requests in flight at once.  The host runs each handler as a        *)
(* coroutine of one event loop: a handler runs alone from one await or     *)
(* yield to the next, and at an await the other handler or any download    *)
(* may run.  Each request is followed from its message to its end; the    *)
(* two messages may name the same note.                                    *)
(***************************************************************************)
PairMessages ==
    {"https://www.xiaohongshu.com/explore/n1?xsec_token=tk", "http://xhslink.com/a/xyz"}

PairDispatch(r) ==
    /\ Dispatch(r, {"xiaohongshu"})
    /\ req'[r].msg \in PairMessages
    /\ req'[r].cred

NextXhsPair ==
    \E r \in Reqs :
        \/ PairDispatch(r)
        \/ Xiaohongshu(r)
        \/ Download(r)

SpecXhsPair == Init /\ [][NextXhsPair]_vars

(***************************************************************************)
(* extra_bili_info on its own: the loop of lines 94-100 over the counters  *)
(* of a video, one key at each step.                                       *)
(***************************************************************************)
CounterValues == {0, 9999, 10000, 10001, 10049, 10050, 10500, 11500, 123456}

StatSamples ==
    {[k \in {StatKeys[i] : i \in 1..Len(StatKeys)} |-> IF k = k0 THEN v ELSE w] :
        k0 \in {StatKeys[i] : i \in 1..Len(StatKeys)},
        v \in CounterValues, w \in {0, 10000, 10001}}

InitStats ==
    /\ req = [r \in Reqs |-> IdleReq]
    /\ tasks = [r \in Reqs |-> [i \in TaskSlots |-> NoTask]]
    /\ disk = {}
    /\ cache = [x \in NoteIds |-> <<>>]
    /\ now = 0
    /\ saved = [x \in NoteIds |-> PyNone]
    /\ video_state \in StatSamples
    /\ stat_i = 0
    /\ video_info_result = ""

\* lines 95-100: one turn of the loop
stat_piece ==
    /\ stat_i < Len(StatKeys)
    /\ stat_i' = stat_i + 1
    /\ video_info_result' =
          video_info_result \o StatPiece(StatKeys[stat_i + 1], video_state[StatKeys[stat_i + 1]])
    /\ UNCHANGED <<video_state, flowVars>>

SpecStats == InitStats /\ [][stat_piece]_vars

(***************************************************************************)
(* The properties.                                                         *)
(***************************************************************************)
Started(r) == req[r].pc \notin {"idle", "start"}

RepliesOf(r, kind, tag) ==
    {k \in 1..Len(req[r].replies) :
        req[r].replies[k].kind = kind /\ req[r].replies[k].tag = tag}

\* C1: once a request's replies have all been emitted, none of the files
\* it wrote is still on disk.
C1_NoFilesLeft ==
    \A r \in Reqs : req[r].pc = "done" => req[r].written \cap disk = {}

\* C2: merge_file_to_mp4 runs only when both stream downloads got a 200
\* response and ended without an exception.
C2_MuxOnlyAfterGoodDownloads ==
    \A r \in Reqs :
        req[r].muxed => \A i \in {1, 2} : tasks[r][i].pc = "done" /\ tasks[r][i].status = 200

Piece(result, key) ==
    LET rest == SubSeq(result, IndexOf(result, key \o ": ") + Len(key) + 2, Len(result))
    IN  SubSeq(rest, 1, IndexOf(rest, " | ") - 1)

Abbreviated(piece) == Len(piece) > 3 /\ SubSeq(piece, Len(piece) - 2, Len(piece)) = "wan"

\* C6: a counter is abbreviated exactly when it is more than 10,000;
\* 10,000 is written "10000" and 10,001 is written "1.0wan".
C6_AbbreviatedIffOver ==
    \A i \in 1..stat_i :
        LET value == video_state[StatKeys[i]]
            piece == Piece(video_info_result, StatKeys[i])
        IN  /\ Abbreviated(piece) <=> value > 10000
            /\ ~Abbreviated(piece) => piece = ToString(value)
            /\ value = 10000 => piece = "10000"
            /\ value = 10001 => piece = "1.0wan"

C6_Witness ==
    /\ stat_i = Len(StatKeys)
    /\ video_state["like"] = 10001
    /\ video_state["coin"] = 10000
    /\ Piece(video_info_result, "like") = "1.0wan"
    /\ Piece(video_info_result, "coin") = "10000"

IsImageNode(node) == node.type = "image"
\* the image items of the k-th reply of a request, a forwarded bundle
ImageNodes(r, k) == SelectSeq(req[r].replies[k].data, IsImageNode)
Bundles(r) == {k \in 1..Len(req[r].replies) : req[r].replies[k].kind = "forward"}

\* the list a handler enumerates when it composes its bundle (None marks an
\* entry it skips) and the image URLs in the order of that list
BundleList(r) ==
    IF req[r].branch = "slides" THEN downloaded_images(r)
    ELSE IF req[r].handler = "xiaohongshu" THEN image_paths(r)
    ELSE req[r].images

BundleSources(r) ==
    IF req[r].branch = "slides" THEN NotNone(req[r].images) ELSE req[r].images

\* C7, as the spec states it: the image items of a bundle are captioned
\* 1/N, 2/N, ..., N/N, N the number of image items.
C7_CaptionsConsecutive ==
    \A r \in Reqs : \A k \in Bundles(r) :
        LET nodes == ImageNodes(r, k)
        IN  \A j \in 1..Len(nodes) : nodes[j].index = j /\ nodes[j].of = Len(nodes)

\* C7, amended: the image items of a bundle follow the order of the source
\* list; each is captioned i/N, i its place in the list the bundle is
\* composed from and N the length of that list; every entry of the list
\* that is not skipped has its item, so the captions of a bundle with
\* images are 1/N, ..., N/N exactly when no entry is skipped.
C7_CaptionsByPosition ==
    \A r \in Reqs : \A k \in Bundles(r) :
        LET nodes == ImageNodes(r, k)
            list == BundleList(r)
            kept == {i \in 1..Len(list) : list[i] # None}
        IN  /\ \A j \in 1..Len(nodes) :
                  /\ nodes[j].of = Len(list)
                  /\ nodes[j].index \in kept
                  /\ nodes[j].src = BundleSources(r)[nodes[j].index]
            /\ \A i, j \in 1..Len(nodes) : i < j => nodes[i].index < nodes[j].index
            /\ Len(nodes) = Cardinality(kept)
            /\ (/\ Len(nodes) > 0
                /\ \A j \in 1..Len(nodes) : nodes[j].index = j /\ nodes[j].of = Len(nodes))
                  <=> (Len(list) > 0 /\ kept = 1..Len(list))

C7_Witness ==
    \E r \in Reqs : \E k \in Bundles(r) :
        LET nodes == ImageNodes(r, k)
        IN  /\ req[r].branch = "slides"
            /\ Len(BundleList(r)) = MaxImages
            /\ BundleList(r)[1] = None
            /\ Len(nodes) = MaxImages - 1
            /\ nodes[1].index = 2
            /\ nodes[1].of = MaxImages

\* what C8 expects of a response
Resolution(response) ==
    IF response.raised THEN None
    ELSE IF response.location # None /\ response.status # 200 THEN response.location
    ELSE IF response.location = None /\ response.status # 200 THEN None
    ELSE IF response.location # None THEN response.location
    ELSE response.url

\* C8: get_redirect_url asks without following redirects; a Location
\* header on a response that is not 200 is the result; no Location header
\* and a status that is not 200 give None; the body of a 200 response is
\* never the source of the result.
C8_RedirectResolution ==
    \A r \in Reqs :
        (req[r].handler = "douyin" /\ Started(r) /\ req[r].url # "")
            => /\ ~req[r].resp.followed
               /\ req[r].resolved = Resolution(req[r].resp)
               /\ req[r].resolved \in {None, req[r].resp.location, req[r].resp.url}
               /\ req[r].resolved # "https://www.iesdouyin.com/share/video/999/"
               /\ (req[r].branch # "slides" /\ req[r].resolved = None)
                     => /\ req[r].pc = "done"
                        /\ RepliesOf(r, "plain", "douyin_short_failed") # {}

C8_Witness ==
    \E r \in Reqs :
        /\ req[r].handler = "douyin"
        /\ req[r].resp.status = 302
        /\ req[r].resp.location = "https://www.iesdouyin.com/share/video/222/"
        /\ req[r].resolved = req[r].resp.location
        /\ req[r].id = "222"

\* BV and ten characters
IsBvOf(s, class) ==
    /\ Len(s) = 12
    /\ SubSeq(s, 1, 2) = "BV"
    /\ \A k \in 3..12 : CharAt(s, k) \in class

\* C9, as the spec states it: a trimmed message that is BV and ten
\* alphanumeric characters gets the prefix and is handled by the video
\* branch.
C9_BareIdToVideoBranch ==
    \A r \in Reqs :
        (Started(r) /\ IsBvOf(Strip(req[r].msg), Lower \cup Upper \cup Digits))
            => /\ req[r].url = BiliVideoPrefix \o Strip(req[r].msg)
               /\ req[r].branch = "video"

\* C9, amended: a trimmed message that is BV and ten characters of
\* [1-9a-zA-Z] reaches the bilibili handler and gets the prefix; it is
\* handled by the video branch, unless it contains "favlist" and there is
\* a credential: then by the favorites branch.
C9_BareIdPrefixed ==
    \A r \in Reqs :
        (Started(r) /\ IsBvOf(Strip(req[r].msg), BvChars))
            => /\ req[r].handler = "bilibili"
               /\ req[r].url = BiliVideoPrefix \o Strip(req[r].msg)
               /\ IF Contains(Strip(req[r].msg), "favlist") /\ req[r].cred
                  THEN req[r].branch = "favorites"
                  ELSE req[r].branch = "video"

C9_Witness ==
    \E r \in Reqs :
        /\ req[r].msg = "BV1ab2cd3ef4 "
        /\ req[r].url = "https://www.bilibili.com/video/BV1ab2cd3ef4"
        /\ req[r].branch = "video"
        /\ req[r].id = "BV1ab2cd3ef4"
        /\ req[r].pc = "b_get_info"

\* C10: a message that matches none of the three patterns of main.py runs
\* no handler and gets no reply.
C10_NoReplyWithoutMatch ==
    \A r \in Reqs :
        (/\ req[r].pc # "idle"
         /\ ~bilibili_filter(req[r].msg)
         /\ ~douyin_filter(req[r].msg)
         /\ ~xiaohongshu_filter(req[r].msg))
            => /\ req[r].handler = "none"
               /\ req[r].pc = "done"
               /\ req[r].replies = <<>>
               /\ ~req[r].raised
               /\ req[r].written = {}

C10_Witness ==
    \E r \in Reqs :
        /\ req[r].msg = "hello"
        /\ req[r].pc = "done"
        /\ req[r].handler = "none"
        /\ req[r].replies = <<>>

\* the reply that ends a request, when it has one
LastReply(r) == req[r].replies[Len(req[r].replies)]

\* C11: no exception leaves process_bilibili_url, process_douyin_url or
\* process_xiaohongshu_url; a request in which an upstream request, a
\* download, the merge or a parse failed ends with a plain-text reply
\* emitted after the failure.
C11_NoExceptionEscapes ==
    \A r \in Reqs :
        /\ ~req[r].raised
        /\ (req[r].pc = "done" /\ req[r].failed.what \in {"fetch", "download", "mux", "parse"})
              => /\ Len(req[r].replies) > req[r].failed.replies
                 /\ LastReply(r).kind = "plain"

\* the plain-text replies that tell of a missing cookie
Refusals(r) == RepliesOf(r, "plain", "douyin_no_cookie") \cup RepliesOf(r, "plain", "xhs_no_cookie")

\* a douyin request whose resolved link is a video or a note: it needs the
\* cookie (on the image-set path the link is resolved a second time, and
\* no cookie is read)
NeedsDouyinCookie(r) ==
    /\ req[r].handler = "douyin"
    /\ Started(r)
    /\ req[r].branch # "slides"
    /\ req[r].resolved \notin {None, ""}
    /\ ~Contains(req[r].resolved, "share/slides")
    /\ id_match(req[r].resolved) # None

\* C12, as the spec states it: a request that needs a cookie that is not
\* configured replies at once and issues no network call, before or after
\* the reply.
C12_NoCallWithoutCredential ==
    \A r \in Reqs :
        ((NeedsDouyinCookie(r) \/ (req[r].handler = "xiaohongshu" /\ Started(r)))
         /\ ~req[r].cred)
            => /\ Cardinality(Refusals(r)) = 1
               /\ req[r].calls = <<>>

\* C12, amended: such a request ends with exactly one plain-text reply and
\* issues no network call after it.  On xiaohongshu it issues no network
\* call at all.  On douyin the resolution of the short link comes before
\* the reply (the resolved link tells that the cookie is needed) and is the
\* only network call of the request.
C12_NoCallAfterRefusal ==
    \A r \in Reqs :
        /\ (req[r].handler = "xiaohongshu" /\ Started(r) /\ ~req[r].cred)
              => /\ req[r].replies = <<Plain("xhs_no_cookie")>>
                 /\ req[r].calls = <<>>
                 /\ req[r].pc = "done" /\ ~req[r].raised
        /\ (NeedsDouyinCookie(r) /\ ~req[r].cred)
              => /\ req[r].replies = <<Plain("douyin_no_cookie")>>
                 /\ req[r].calls = <<[what |-> "resolve", after |-> 0]>>
                 /\ req[r].pc = "done" /\ ~req[r].raised
        /\ Refusals(r) # {} => ~req[r].cred /\ Len(req[r].replies) = 1

C12_Witness ==
    \E r \in Reqs :
        /\ req[r].handler = "douyin"
        /\ ~req[r].cred
        /\ req[r].resolved = "https://www.iesdouyin.com/share/video/222/"
        /\ req[r].replies = <<Plain("douyin_no_cookie")>>
        /\ Len(req[r].calls) = 1
        /\ req[r].pc = "done"

\* the places in calls of the calls of one kind
CallsOf(r, what) == {k \in 1..Len(req[r].calls) : req[r].calls[k].what = what}

\* C13, as the spec states it: on xiaohongshu the cache lookup comes before
\* the first network call of the request.
C13_LookupBeforeAnyCall ==
    \A r \in Reqs :
        (req[r].handler = "xiaohongshu" /\ req[r].cred /\ req[r].calls # <<>>)
            => req[r].looked_after = 0

\* C13, amended: the cache lookup comes before every request for the
\* note's page and every download.  The one call that may come before it
\* is the resolution of an xhslink.com short link, which gives the note ID
\* the lookup needs.  A lookup that finds a fresh entry is followed by no
\* request for the note's page.
C13_LookupBeforeContentCall ==
    \A r \in Reqs :
        (req[r].handler = "xiaohongshu" /\ req[r].cred)
            => /\ \A k \in CallsOf(r, "note_page") \cup CallsOf(r, "download") :
                      req[r].looked_after # -1 /\ k > req[r].looked_after
               /\ \A k \in CallsOf(r, "resolve") :
                      /\ k = 1
                      /\ Contains(msg_url_match(Strip(req[r].msg)), "xhslink")
                      /\ req[r].looked_after \in {-1, 1}
               /\ req[r].looked_after \in {-1, 0, 1}
               /\ req[r].lookup = "fresh" => CallsOf(r, "note_page") = {}
               /\ (req[r].lookup \in {"absent", "expired"})
                      => CallsOf(r, "note_page") = {req[r].looked_after + 1}

C13_Witness ==
    \E r \in Reqs :
        /\ req[r].handler = "xiaohongshu"
        /\ req[r].msg = "http://xhslink.com/a/xyz"
        /\ req[r].looked_after = 1
        /\ req[r].lookup = "fresh"
        /\ req[r].calls[1].what = "resolve"
        /\ CallsOf(r, "download") # {}

\* C14: a request whose short-link resolution failed (a b23.tv or
\* bili2233.cn link, a v.douyin.com link) ends there: its only reply is
\* one plain-text reply, it issues no call after the failed resolution
\* (the resolution is not asked again), starts no download and raises
\* nothing.
C14_ResolutionFailureIsFinal ==
    \A r \in Reqs :
        /\ (req[r].handler = "douyin" /\ Started(r) /\ req[r].url # ""
             /\ req[r].resp.location = None
             /\ (req[r].resp.raised \/ req[r].resp.status # 200))
              => req[r].failed.what = "resolve"
        /\ (req[r].handler = "bilibili" /\ req[r].branch = "short_failed")
              => req[r].failed.what = "resolve" /\ Len(req[r].calls) <= 1
        /\ req[r].failed.what = "resolve"
              => /\ req[r].pc = "done"
                 /\ ~req[r].raised
                 /\ Len(req[r].replies) = 1
                 /\ req[r].replies[1].kind = "plain"
                 /\ req[r].replies[1].tag \in
                        {"short_link_failed", "douyin_short_failed", "slide_failed",
                         "xhs_short_failed"}
                 /\ Len(req[r].calls) = req[r].failed.calls
                 /\ req[r].calls # <<>>
                       => req[r].calls[Len(req[r].calls)] = [what |-> "resolve", after |-> 0]
                 /\ \A i \in TaskSlots : tasks[r][i] = NoTask
                 /\ req[r].written = {}

C14_Witness ==
    \E r \in Reqs :
        /\ req[r].handler = "bilibili"
        /\ req[r].msg = "https://b23.tv/abc"
        /\ req[r].failed.what = "resolve"
        /\ req[r].calls = <<[what |-> "resolve", after |-> 0]>>
        /\ req[r].replies = <<Plain("short_link_failed")>>
        /\ req[r].pc = "done"

\* C15: when the AI summary fails (the video has been yielded, there is a
\* credential), the step that fails adds no reply and changes none of the
\* replies already emitted, and the handler returns without raising.
C15_SummaryFailureSwallowed ==
    [][\A r \in Reqs :
          (req[r].pc = "b_sent" /\ req'[r].summary = "failed")
              => /\ req[r].cred
                 /\ req'[r].replies = req[r].replies
                 /\ req'[r].replies[Len(req'[r].replies)].tag = "video"
                 /\ req'[r].pc = "done"
                 /\ ~req'[r].raised]_vars

C15_Witness ==
    \E r \in Reqs :
        /\ req[r].summary = "failed"
        /\ req[r].cred
        /\ req[r].pc = "done"
        /\ ~req[r].raised
        /\ req[r].calls[Len(req[r].calls)].what = "ai_conclusion"
        /\ LastReply(r) = Chain("video", BiliPath(req[r], ".mp4"))
        /\ Len(req[r].replies) = 2

\* after its last failure the request has issued no call and has emitted
\* at most one reply, a plain-text one
EndsAtFailure(r) ==
    /\ Len(req[r].calls) = req[r].failed.calls
    /\ Len(req[r].replies) <= req[r].failed.replies + 1
    /\ Len(req[r].replies) = req[r].failed.replies + 1 => LastReply(r).kind = "plain"

HasFallback(r) ==
    /\ req[r].handler = "douyin"
    /\ req[r].branch = "slides"
    /\ req[r].failed.what \in {"third_party", "download", "send"}

C17_EveryRequestReplies ==
    \A r \in Reqs :
        (req[r].pc = "done" /\ req[r].handler # "none") => req[r].replies # <<>>

\* the branches of process_bilibili_url, first to last
PriorityOrder == <<"dynamic", "live", "article", "favorites", "video", "unsupported">>

\* whether a branch takes a URL, whatever the branches before it do
Takes(branch, url, credential) ==
    CASE branch = "dynamic" ->
            (Contains(url, "t.bilibili.com") \/ Contains(url, "/opus/")) /\ credential
      [] branch = "live" -> Contains(url, "live.bilibili.com")
      [] branch = "article" -> Contains(url, "/read/cv")
      [] branch = "favorites" -> Contains(url, "favlist") /\ credential
      [] branch = "video" -> Contains(url, "video/av") \/ Contains(url, "video/BV")
      [] branch = "unsupported" -> TRUE

\* the replies and the upstream calls that belong to a branch
BranchReplies(branch) ==
    CASE branch = "dynamic" -> {"dynamic", "dynamic_no_id", "dynamic_failed"}
      [] branch = "live" -> {"live", "live_no_id", "live_failed"}
      [] branch = "article" -> {"article", "article_no_id", "article_failed"}
      [] branch = "favorites" -> {"favorites", "favorites_no_id"}
      [] branch = "video" -> {"video_no_id", "video_no_data", "caption", "video", "ai_summary"}
      [] branch = "unsupported" -> {"unsupported"}

BranchCalls(branch) ==
    CASE branch = "dynamic" -> {"dynamic_info"}
      [] branch = "live" -> {"live_info"}
      [] branch = "article" -> {"article_info"}
      [] branch = "favorites" -> {}
      [] branch = "video" -> {"video_info", "online", "download_url", "download", "ai_conclusion"}
      [] branch = "unsupported" -> {}

\* a bilibili request that has been classified
Classified(r) ==
    /\ req[r].handler = "bilibili"
    /\ Started(r)
    /\ req[r].branch \notin {"none", "short_failed"}

\* C18: the branch that handles a request is the first of dynamic, live,
\* article, favorites, video, unsupported that takes the resolved URL; the
\* replies and the upstream calls of the request are those of that branch
\* only.
C18_BranchByPriority ==
    \A r \in Reqs :
        /\ (req[r].handler = "bilibili" /\ Started(r) /\ req[r].pc # "b_short")
              => req[r].branch # "none"
        /\ Classified(r)
              => \E n \in 1..Len(PriorityOrder) :
                    /\ req[r].branch = PriorityOrder[n]
                    /\ Takes(PriorityOrder[n], req[r].resolved, req[r].cred)
                    /\ \A m \in 1..(n - 1) :
                          ~Takes(PriorityOrder[m], req[r].resolved, req[r].cred)
                    /\ \A k \in 1..Len(req[r].replies) :
                          req[r].replies[k].tag \in BranchReplies(PriorityOrder[n])
                    /\ \A k \in 1..Len(req[r].calls) :
                          \/ req[r].calls[k].what \in BranchCalls(PriorityOrder[n])
                          \/ k = 1 /\ req[r].calls[k].what = "resolve"

C18_Witness ==
    \E r \in Reqs :
        /\ req[r].msg = "https://live.bilibili.com/45/read/cv789"
        /\ req[r].branch = "live"
        /\ req[r].calls = <<[what |-> "live_info", after |-> 0]>>
        /\ req[r].replies = <<Chain("live", "45")>>
        /\ req[r].pc = "done"

\* the tags of the replies of a request
ReplyTags(r) == {req[r].replies[k].tag : k \in 1..Len(req[r].replies)}

IsDynamicShape(url) == Contains(url, "t.bilibili.com") \/ Contains(url, "/opus/")

\* C19, as the spec states it: without a credential the dynamic, article
\* and favorites branches are all passed over: none of them handles the
\* request, issues its upstream call or emits a reply of its own.
C19_NoCredentialSkipsThree ==
    \A r \in Reqs :
        (Classified(r) /\ ~req[r].cred)
            => /\ req[r].branch \notin {"dynamic", "article", "favorites"}
               /\ CallsOf(r, "dynamic_info") \cup CallsOf(r, "article_info") = {}
               /\ ReplyTags(r) \cap (BranchReplies("dynamic") \cup BranchReplies("article")
                                      \cup BranchReplies("favorites")) = {}

\* C19, amended: without a credential the dynamic and the favorites
\* branches are passed over (no upstream call, no reply of theirs) and a
\* URL of either shape is handled by a later branch.  The article branch
\* does not ask for the credential: a URL with /read/cv that no earlier
\* branch takes is handled by it, with its upstream call, with or without
\* a credential.
C19_NoCredentialSkipsTwo ==
    \A r \in Reqs :
        Classified(r)
            => /\ ~req[r].cred
                     => /\ req[r].branch \in {"live", "article", "video", "unsupported"}
                        /\ CallsOf(r, "dynamic_info") = {}
                        /\ ReplyTags(r) \cap (BranchReplies("dynamic")
                                               \cup BranchReplies("favorites")) = {}
               /\ (~req[r].cred /\ ~Contains(req[r].resolved, "live.bilibili.com")
                    /\ ~Contains(req[r].resolved, "/read/cv")
                    /\ (IsDynamicShape(req[r].resolved) \/ Contains(req[r].resolved, "favlist")))
                     => req[r].branch \in {"video", "unsupported"}
               /\ (/\ Contains(req[r].resolved, "/read/cv")
                    /\ ~Contains(req[r].resolved, "live.bilibili.com")
                    /\ ~(IsDynamicShape(req[r].resolved) /\ req[r].cred))
                     => /\ req[r].branch = "article"
                        /\ cv_match(req[r].resolved) # None
                              => req[r].calls = <<[what |-> "article_info", after |-> 0]>>

C19_Witness ==
    \E r \in Reqs :
        /\ req[r].msg = "https://t.bilibili.com/123"
        /\ ~req[r].cred
        /\ req[r].branch = "unsupported"
        /\ req[r].calls = <<>>
        /\ req[r].replies = <<Chain("unsupported", "https://t.bilibili.com/123")>>
        /\ req[r].pc = "done"

\* the part that the query parameter p names, 1-based, 1 when p or the
\* query string is absent
PartOf(url) ==
    IF UrlQuery(url) = "" THEN 1
    ELSE LET p == QueryParam(UrlQuery(url), "p")
         IN  IF p = None THEN 1 ELSE ParseNat(p)

NumericPart(url) ==
    \/ UrlQuery(url) = ""
    \/ QueryParam(UrlQuery(url), "p") = None
    \/ IsDigits(QueryParam(UrlQuery(url), "p"))

\* C20: when Video.get_info() has answered with a record that lists its
\* parts and p is a number (or absent), the request goes on with the
\* duration of part p when that part exists and has a duration, and with
\* the top-level duration otherwise, also for a p outside 1..number of
\* parts; nothing is raised by the choice of the part.
C20_DurationOfSelectedPart ==
    \A r \in Reqs :
        (/\ req[r].handler = "bilibili"
         /\ req[r].info # PyNone
         /\ HasKey(req[r].info, "pages")
         /\ NumericPart(req[r].url))
            => LET pages == Get(req[r].info, "pages", PyList(<<>>)).v
                   top == Get(req[r].info, "duration", PyInt(0)).v
                   p == PartOf(req[r].url)
               IN  /\ ~(req[r].raised /\ req[r].failed.what = "parse")
                   /\ req[r].duration =
                         IF p \in 1..Len(pages) /\ HasKey(pages[p], "duration")
                         THEN Get(pages[p], "duration", PyInt(top)).v
                         ELSE top
                   /\ p \in 1..Len(pages) => req[r].page_num = p - 1

\* C21: download_b_file reports the completed fraction, in thousandths,
\* after each chunk when the response has a content-length, and when it
\* has none the download reports nothing and does not fail at the report.
C21_ProgressOrSkipped ==
    \A r \in Reqs : \A i \in TaskSlots :
        tasks[r][i].kind = "bili"
            => /\ tasks[r][i].error # "progress"
               /\ (tasks[r][i].pc = "stream" /\ tasks[r][i].total > 0)
                     => tasks[r][i].progress =
                            [k \in 1..(tasks[r][i].total - tasks[r][i].left) |->
                                Round3(k, tasks[r][i].total)]
               /\ (tasks[r][i].pc = "stream" /\ tasks[r][i].total = 0)
                     => tasks[r][i].progress = <<>>

\* C22: when one of the two stream downloads of a bilibili video request
\* has failed, neither stream file is on the disk once the request has
\* ended, however the two downloads are interleaved.
C22_NoStreamFileAfterFailedDownload ==
    \A r \in Reqs :
        (/\ req[r].handler = "bilibili"
         /\ req[r].pc = "done"
         /\ req[r].failed.what = "download")
            => BiliStreams(req[r]) \cap disk = {}

\* the records extract_note_info can make of what upstream has for a note
CompleteNotes(note_id) == {extract_note_info(raw) : raw \in RawNotes(note_id)}

\* the request takes a step in which upstream answers and the note is
\* extracted and cached
Writes(r) == req[r].pc = "x_fetch" /\ req'[r].fetch = "ok"

LocalPaths(reply) ==
    IF reply.kind = "forward"
    THEN {reply.data[k].file : k \in {j \in 1..Len(reply.data) : reply.data[j].type = "image"}}
    ELSE IF reply.tag \in {"xhs_video", "video"} THEN {reply.data}
    ELSE {}

\* the files a request has downloaded and has still to send
Unsent(r) ==
    IF req[r].pc \in {"x_gather", "x_video"}
    THEN {tasks[r][i].path : i \in {j \in TaskSlots : tasks[r][j].pc = "done"}}
    ELSE {}

\* C24: with two requests in flight, also for the same note, no step of
\* one request removes a file the other has downloaded and has still to
\* send, and every local path a request attaches to a reply is a file on
\* the disk.
C24_NoInterference ==
    [][\A r \in Reqs :
          /\ req'[r] = req[r] => (Unsent(r) \cap disk) \subseteq disk'
          /\ Len(req'[r].replies) > Len(req[r].replies)
                => LocalPaths(req'[r].replies[Len(req'[r].replies)]) \subseteq disk]_vars

\* the request ends in this step, at a stage before the note is had: no
\* cookie, no link or ID, a short link that does not resolve, a request
\* that raises, a page without the marker, a state that does not parse
EndsBeforeNote(r) ==
    /\ req[r].handler = "xiaohongshu"
    /\ req[r].pc \in {"start", "x_short", "x_fetch"}
    /\ req'[r].pc = "done"
    /\ req'[r].fetch # "ok"
    /\ req'[r].lookup # "fresh"

\* the request is served from a fresh entry in this step
ServedFromCache(r) ==
    /\ req[r].handler = "xiaohongshu"
    /\ req[r].lookup = "none"
    /\ req'[r].lookup = "fresh"

\* C25: a step changes the cache only when a request that missed the
\* cache, or found its entry expired, has fetched and parsed the note, and
\* then only the entry of that note; a request that ends before it has
\* the note and a request served from a fresh entry leave every entry as
\* it is, timestamp included.
C25_OnlyFetchersWrite ==
    [][/\ cache' # cache
            => \E r \in Reqs :
                  /\ Writes(r)
                  /\ req[r].lookup \in {"absent", "expired"}
                  /\ \A x \in NoteIds \ {req[r].id} : cache'[x] = cache[x]
       /\ \A r \in Reqs :
              (EndsBeforeNote(r) \/ ServedFromCache(r)) => cache' = cache]_vars

\* the entry of n1 has expired, the request for n1 ends at the fetch, and
\* the entry still has the time of its writing
C25_Witness ==
    \E r \in Reqs :
        /\ req[r].id = "n1"
        /\ req[r].lookup = "expired"
        /\ req[r].fetch \in {"request_failed", "no_state", "parse_failed"}
        /\ req[r].pc = "done"
        /\ cache["n1"] # <<>>
        /\ Get(Load(cache["n1"]), "timestamp", PyNone) = PyInt(0)
        /\ now = max_age + 1

=============================================================================
